---------------------------- MODULE Spec2Model ----------------------------
(***************************************************************************)
(* OrcaNet: the epoch/file training scheduler (orcanet/core.py, Organizer) *)
(* and the HDF5 batch generator (orcanet/backend.py).                      *)
(*                                                                         *)
(* The Organizer part is a single sequential process working on one output *)
(* folder.  Durable state is the summary log (one row per trained          *)
(* position, with its validation flag) and the saved model artifacts.      *)
(* Everything else lives in the memory of the running process and is lost  *)
(* by Restart.  A call of train / validate / train_and_validate is cut     *)
(* into steps at the places where durable state changes, so that a kill    *)
(* between any two of them is a behaviour of the model.                    *)
(*                                                                         *)
(* orcanet/in_out.py (IOHandler) and orcanet/history.py (HistoryHandler)   *)
(* are not part of the sources at hand; get_latest_epoch, get_next_epoch,  *)
(* get_state, record_training and record_validation follow the written     *)
(* specification of the schedule tracker.                                  *)
(***************************************************************************)
EXTENDS Integers, Sequences, FiniteSets, TLC

\* ------------------------------------------------------------- bounds
\* largest number of train files of a configuration
MaxFiles == 2
\* training stops being requested beyond this epoch
MaxEpoch == 2
\* largest validate_interval of a configuration
MaxInterval == 2

\* learning rates and decays are the numbers 0/2, 1/2, ..., MaxNum/2
MaxNum == 2
\* a sequence given as learning rate has at most this many entries
MaxLrLen == 3

\* most metrics of a model (its loss included), most validation files of
\* validate_model, and largest value of a metric on a file
MaxMetrics == 2
MaxValFiles == 2
MaxLoss == 2
\* most rows of a summary log that cleanup_models is run on
MaxRows == 3
\* most write_line calls made on one summary.txt
MaxCalls == 2
\* most keys of one config file or one set of keyword arguments
MaxKeys == 2
\* most files an input of a list file declares for a split
MaxListFiles == 1
\* most inference files
MaxInfFiles == 2
\* BatchLogger: most train files, samples of a train file, cfg.batchsize
\* and cfg.train_logger_display
MaxLogFiles == 3
MaxLogSamples == 5
MaxLogBatch == 4
MaxDisplay == 2

\* most samples in an h5 file, and largest f_size asked for
MaxSamples == 4
\* largest cfg.batchsize
MaxBatch == 3
\* largest cfg.max_queue_size
MaxQueue == 3

\* Python's None for a position / an optional integer (<<k>> is the integer k)
None == <<>>

VARIABLES
    \* Configuration
    n_train_files,      \* io.get_no_of_files("train")
    validate_interval,  \* cfg.validate_interval: None or <<k>>
    cleanup_models,     \* cfg.cleanup_models
    \* durable state of the output folder
    summary,            \* summary.txt: rows in file order
    saved_models,       \* positions with a model file in saved_models/
    partial_models,     \* those whose file is only partly written
    \* the running process
    pc,                 \* where the process stands
    ret,                \* where train() / validate() returns to
    stored_model,       \* Organizer._stored_model is not None
    train_epoch,        \* next_epoch of the running train()
    val_epoch,          \* latest_epoch of the running validate()
    tav_next_epoch,     \* next_epoch of train_and_validate
    tav_file_no,        \* file_no of its for loop
    tav_trained_epochs, \* trained_epochs
    tav_epochs,         \* its epochs argument: None or <<k>>
    \* what an observer of the calls sees
    error,              \* outcome of the last finished top-level call
    lr_set,             \* the running/last train() has set the learning rate
    batches_read,       \* the running/last train() has read batches
    val_evaluated,      \* the running/last validate() has evaluated the model
    fresh,              \* this Organizer has not completed a train() yet
    last_trained,       \* position of the last train() that returned
    val_log,            \* every recorded validation: [pos, via], in order
    \* one call of backend.hdf5_batch_generator and its consumer
    gen_file_len,       \* len(files[input_key][samples_key]), first input
    gen_other_len,      \* the same for a second input: None or <<k>>
    gen_yield_mc,       \* the yield_mc_info argument
    gen_f_size,         \* the f_size argument: None or <<k>>
    gen_cfg_batchsize,  \* orga.cfg.batchsize
    gen_max_queue_size, \* orga.cfg.max_queue_size
    gen_shuffle,        \* the shuffle argument
    gen_pc,             \* "off", "created", "running" or "exhausted"
    gen_sample_pos,     \* sample_pos, once the generator runs
    gen_batches,        \* the batches yielded so far, see read_batch
    gen_opened,         \* inputs whose file the generator has opened
    gen_open,           \* inputs whose file is open now
    gen_error,          \* the exception the generator has raised, or "none"
    cons_mode,          \* "prefetch" (a bounded queue) or "drain" (a list())
    cons_consumed,      \* batches the consumer has used
    cons_starved,       \* the prefetching consumer met StopIteration
    \* one pass of backend.train_model, validate_model,
    \* make_model_prediction or save_actv_wghts_plot over its files
    pass_kind,          \* "train", "validate", "predict" or "plot"
    pass_pc,            \* "off", "running", "finished" or "failed"
    pass_files,         \* io.get_file_sizes(...): samples per file
    pass_f_number,      \* the file the pass is at (from 1)
    pass_n_events,      \* cfg.n_events: None or <<k>>
    pass_samples,       \* the samples argument: None or <<k>>
    pass_leaked,        \* files of earlier generators of the pass still open
    pass_error,         \* the exception that ended the pass, or "none"
    pred_rows,          \* rows of every dataset of the prediction file
    pred_created,       \* datagroups_created
    pred_written,       \* rows of all batches written to the prediction file
    pred_index,         \* per row written: <<file number, sample of the file>>
    \* one call of backend.get_learning_rate
    lr_epoch,           \* the epoch argument: (epoch, file number)
    lr_user_lr,         \* the user_lr argument, see UserLrs
    lr_no_train_files,  \* the no_train_files argument
    lr_result,          \* what the call gave: a return value or an exception
    \* the end of one call of backend.validate_model
    vm_metrics_names,   \* model.metrics_names
    vm_histories,       \* histories: what evaluate_generator gave per file
    vm_pc,              \* "evaluated" or "returned"
    vm_result,          \* the history_val returned
    \* Organizer.predict on one output folder
    pr_n_val_files,     \* io.get_no_of_files("val")
    pr_pred_files,      \* per position: the val files with a prediction file
    pr_conc,            \* the folder predictions/concatenated exists
    pr_pc,              \* "idle" or "predicting"
    pr_args,            \* epoch, fileno, concatenate of the running/last call
    pr_f_number,        \* the val file make_model_prediction is at
    pr_was_done,        \* the running/last call found all files predicted
    pr_was_partial,     \* that call found some, not all, files predicted
    pr_loaded,          \* that call has loaded a model
    pr_ran,             \* that call has run make_model_prediction
    pr_wrote,           \* what that call has written: "pred", "conc"
    pr_return,          \* pred_filepaths of the last call that returned
    pr_error,           \* how the last call ended: "none", an error, "killed"
    pr_produced,        \* per position: the call that completed its prediction
    pr_last_write,      \* the last prediction file written, and over what
    \* Organizer.cleanup_models
    cl_val_loss,        \* per row of summary.txt: its val_loss, None or <<v>>
    cl_pc,              \* "idle", "returned" or "AssertionError"
    cl_before,          \* the models on disk when cleanup_models was called
    \* SummaryLogger on one output folder
    sl_file,            \* summary.txt: whether it exists, and its lines
    sl_pc,              \* "idle", or "row" before the data line is written
    sl_args,            \* the logger and the arguments of the running/last call
    sl_calls,           \* the calls that returned, in order
    sl_count,           \* number of calls begun
    sl_before,          \* summary.txt when the running/last call began
    sl_error,           \* outcome of the last call
    \* Configuration
    cf_pc,              \* "init" inside __init__, then "ready"; "failed" if it raised
    cf_user_set,        \* the attributes set from a config file or from kwargs
    cf_files_dict,      \* _files_dict: per split None or <<files per input>>
    cf_list_file,       \* _list_file is not None
    cf_call,            \* the last call and its argument
    cf_error,           \* what the last call raised, "none" if nothing
    cf_result,          \* what the last get_files returned
    cf_before_loaded,   \* _list_file was not None before the last call
    \* Organizer.get_xs_mean
    xm_files,           \* the train files: samples of ones and of zeros in each
    xm_zero_center_folder,\* cfg.zero_center_folder is not None
    xm_saved,           \* the image saved in the folder, None or <<image>>
    xm_computed,        \* how often the image was computed
    xm_loads,           \* load_zero_center_data calls of this Organizer
    xm_xs_mean,         \* orga.xs_mean, None or <<image>>
    xm_calls,           \* number of get_xs_mean calls
    xm_result,          \* what the last call returned
    xm_error,           \* what the last call raised
    \* Organizer.inference
    inf_files,          \* the names of the inference files of the first input
    inf_outputs,        \* the output files in the predictions folder
    inf_opened,         \* per position and file: how often it was read
    inf_written,        \* per output path: how often it was written
    inf_pc,             \* "idle" or "loop"
    inf_args,           \* epoch and fileno of the running/last call
    inf_calls,          \* number of calls begun
    inf_f_number,       \* f_number of the loop
    inf_filenames,      \* filenames of the running/last call
    inf_wrote,          \* outputs written by the running/last call
    inf_return,         \* what the last call that returned has returned
    inf_error,          \* how the last call ended
    inf_completed,      \* per position: what its first whole call returned
    inf_was_complete,   \* a call for the position had returned before
    \* BatchLogger: the per-batch log of the training of a file
    bl_file_sizes,      \* orga.io.get_file_sizes("train")
    bl_batchsize,       \* cfg.batchsize
    bl_display,         \* cfg.train_logger_display
    bl_flush,           \* cfg.train_logger_flush
    bl_metrics_names,   \* model.metrics_names
    bl_pc,              \* "idle" or "training"
    bl_epoch,           \* the position the logger was made for, or None
    bl_seen,            \* self.seen
    bl_lines,           \* self.lines
    bl_cum_metrics,     \* self.cum_metrics
    bl_file,            \* the log file of the position: head, rows, rows synced
    bl_logs,            \* the logs of the batches of the file so far
    bl_last_float,      \* <<Batch_float>> of the last row of the files before
    \* one hdf5_batch_generator and its zero centering
    zc_pc,              \* "off", "created", "running", "raised" or "exhausted"
    zc_inputs,          \* the keys of files_dict
    zc_zero_center,     \* the zero_center argument
    zc_sample_modifier, \* cfg.sample_modifier is not None
    zc_n_batches,       \* len(sample_pos)
    zc_opened,          \* the files the generator has opened
    zc_batches,         \* the xs of the batches yielded
    zc_xs_mean,         \* xs_mean of the generator, None or <<image>>
    zc_error            \* what the generator raised

vars == <<n_train_files, validate_interval, cleanup_models, summary, saved_models,
          partial_models, pc, ret, stored_model, train_epoch, val_epoch,
          tav_next_epoch, tav_file_no, tav_trained_epochs, tav_epochs, error,
          lr_set, batches_read, val_evaluated, fresh, last_trained, val_log,
          gen_file_len, gen_other_len, gen_yield_mc, gen_f_size,
          gen_cfg_batchsize, gen_max_queue_size, gen_shuffle, gen_pc,
          gen_sample_pos, gen_batches, gen_opened, gen_open, gen_error,
          cons_mode, cons_consumed, cons_starved, pass_kind, pass_pc,
          pass_files, pass_f_number, pass_n_events, pass_samples,
          pass_leaked, pass_error, pred_rows, pred_created, pred_written,
          pred_index, lr_epoch, lr_user_lr, lr_no_train_files, lr_result,
          vm_metrics_names, vm_histories, vm_pc, vm_result, pr_n_val_files,
          pr_pred_files, pr_conc, pr_pc, pr_args, pr_f_number, pr_was_done,
          pr_was_partial, pr_loaded, pr_ran, pr_wrote, pr_return, pr_error,
          pr_produced, pr_last_write, cl_val_loss, cl_pc, cl_before, sl_file,
          sl_pc, sl_args, sl_calls, sl_count, sl_before, sl_error, cf_pc,
          cf_user_set, cf_files_dict, cf_list_file, cf_call, cf_error,
          cf_result, cf_before_loaded, xm_files, xm_zero_center_folder,
          xm_saved, xm_computed, xm_loads, xm_xs_mean, xm_calls, xm_result,
          xm_error, inf_files, inf_outputs, inf_opened, inf_written, inf_pc,
          inf_args, inf_calls, inf_f_number, inf_filenames, inf_wrote,
          inf_return, inf_error, inf_completed, inf_was_complete,
          bl_file_sizes, bl_batchsize, bl_display, bl_flush,
          bl_metrics_names, bl_pc, bl_epoch, bl_seen, bl_lines,
          bl_cum_metrics, bl_file, bl_logs, bl_last_float, zc_pc, zc_inputs,
          zc_zero_center, zc_sample_modifier, zc_n_batches, zc_opened,
          zc_batches, zc_xs_mean, zc_error>>

orga_vars == <<n_train_files, validate_interval, cleanup_models, summary, saved_models,
               partial_models, pc, ret, stored_model, train_epoch, val_epoch,
               tav_next_epoch, tav_file_no, tav_trained_epochs, tav_epochs,
               error, lr_set, batches_read, val_evaluated, fresh,
               last_trained, val_log>>
gen_args == <<gen_file_len, gen_other_len, gen_yield_mc, gen_f_size,
              gen_cfg_batchsize, gen_max_queue_size, gen_shuffle, cons_mode>>
gen_files == <<gen_opened, gen_open, gen_error>>
gen_vars == <<gen_file_len, gen_other_len, gen_yield_mc, gen_f_size,
              gen_cfg_batchsize, gen_max_queue_size, gen_shuffle, gen_pc,
              gen_sample_pos, gen_batches, gen_opened, gen_open, gen_error,
              cons_mode, cons_consumed, cons_starved>>

pass_args == <<pass_kind, pass_files, pass_n_events, pass_samples>>
pred_vars == <<pred_rows, pred_created, pred_written, pred_index>>
pass_vars == <<pass_kind, pass_pc, pass_files, pass_f_number, pass_n_events,
               pass_samples, pass_leaked, pass_error, pred_rows,
               pred_created, pred_written, pred_index>>

lr_vars == <<lr_epoch, lr_user_lr, lr_no_train_files, lr_result>>

vm_vars == <<vm_metrics_names, vm_histories, vm_pc, vm_result>>

pr_vars == <<pr_n_val_files, pr_pred_files, pr_conc, pr_pc, pr_args,
             pr_f_number, pr_was_done, pr_was_partial, pr_loaded, pr_ran,
             pr_wrote, pr_return, pr_error, pr_produced, pr_last_write>>
\* what a call of predict has seen and done
pr_call == <<pr_args, pr_was_done, pr_was_partial, pr_loaded, pr_ran>>

cl_vars == <<cl_val_loss, cl_pc, cl_before>>

sl_vars == <<sl_file, sl_pc, sl_args, sl_calls, sl_count, sl_before,
             sl_error>>

cf_vars == <<cf_pc, cf_user_set, cf_files_dict, cf_list_file, cf_call,
             cf_error, cf_result, cf_before_loaded>>

xm_vars == <<xm_files, xm_zero_center_folder, xm_saved, xm_computed,
             xm_loads, xm_xs_mean, xm_calls, xm_result, xm_error>>

inf_vars == <<inf_files, inf_outputs, inf_opened, inf_written, inf_pc,
              inf_args, inf_calls, inf_f_number, inf_filenames, inf_wrote,
              inf_return, inf_error, inf_completed, inf_was_complete>>

bl_vars == <<bl_file_sizes, bl_batchsize, bl_display, bl_flush,
             bl_metrics_names, bl_pc, bl_epoch, bl_seen, bl_lines,
             bl_cum_metrics, bl_file, bl_logs, bl_last_float>>

zc_vars == <<zc_pc, zc_inputs, zc_zero_center, zc_sample_modifier,
             zc_n_batches, zc_opened, zc_batches, zc_xs_mean, zc_error>>

\* what the training calls of the Organizer, a lone generator, a pass, a
\* call of get_learning_rate, the averaging of validate_model, predict and
\* cleanup_models (which works on the Organizer's folder) leave alone
non_orga_vars == <<gen_vars, pass_vars, lr_vars, vm_vars, pr_vars, cl_vars,
                   sl_vars, cf_vars, xm_vars, inf_vars, bl_vars, zc_vars>>
non_gen_vars == <<orga_vars, pass_vars, lr_vars, vm_vars, pr_vars, cl_vars,
                  sl_vars, cf_vars, xm_vars, inf_vars, bl_vars, zc_vars>>
non_pass_vars == <<orga_vars, lr_vars, vm_vars, pr_vars, cl_vars, sl_vars,
                   cf_vars, xm_vars, inf_vars, bl_vars, zc_vars>>
non_lr_vars == <<orga_vars, gen_vars, pass_vars, vm_vars, pr_vars, cl_vars,
                 sl_vars, cf_vars, xm_vars, inf_vars, bl_vars, zc_vars>>
non_vm_vars == <<orga_vars, gen_vars, pass_vars, lr_vars, pr_vars, cl_vars,
                 sl_vars, cf_vars, xm_vars, inf_vars, bl_vars, zc_vars>>
non_pr_vars == <<orga_vars, gen_vars, pass_vars, lr_vars, vm_vars, cl_vars,
                 sl_vars, cf_vars, xm_vars, inf_vars, bl_vars, zc_vars>>
non_cl_vars == <<gen_vars, pass_vars, lr_vars, vm_vars, pr_vars, sl_vars,
                 cf_vars, xm_vars, inf_vars, bl_vars, zc_vars>>
non_sl_vars == <<orga_vars, gen_vars, pass_vars, lr_vars, vm_vars, pr_vars,
                 cl_vars, cf_vars, xm_vars, inf_vars, bl_vars, zc_vars>>
non_cf_vars == <<orga_vars, gen_vars, pass_vars, lr_vars, vm_vars, pr_vars,
                 cl_vars, sl_vars, xm_vars, inf_vars, bl_vars, zc_vars>>
non_xm_vars == <<orga_vars, gen_vars, pass_vars, lr_vars, vm_vars, pr_vars,
                 cl_vars, sl_vars, cf_vars, inf_vars, bl_vars, zc_vars>>
non_inf_vars == <<orga_vars, gen_vars, pass_vars, lr_vars, vm_vars, pr_vars,
                  cl_vars, sl_vars, cf_vars, xm_vars, bl_vars, zc_vars>>
non_bl_vars == <<orga_vars, gen_vars, pass_vars, lr_vars, vm_vars, pr_vars,
                 cl_vars, sl_vars, cf_vars, xm_vars, inf_vars, zc_vars>>
non_zc_vars == <<orga_vars, gen_vars, pass_vars, lr_vars, vm_vars, pr_vars,
                 cl_vars, sl_vars, cf_vars, inf_vars, bl_vars>>

config_vars == <<n_train_files, validate_interval, cleanup_models>>
tav_vars == <<tav_next_epoch, tav_file_no, tav_trained_epochs, tav_epochs>>
seen_vars == <<fresh, last_trained, val_log>>

\* ------------------------------------------------ the schedule tracker

\* One row of the summary log for a trained position.
Row(epoch) == [epoch |-> epoch, is_validated |-> FALSE]

\* (e1,f1) < (e2,f2)
EpochLess(a, b) == a[1] < b[1] \/ (a[1] = b[1] /\ a[2] < b[2])

\* the i-th position of the sequence (1,1), (1,2), ..., (1,n), (2,1), ...
PosAt(i, n) == <<((i - 1) \div n) + 1, ((i - 1) % n) + 1>>

\* history.get_state(): one entry per row of the summary log
get_state == summary

\* io.get_latest_epoch(): highest position with a training record
get_latest_epoch ==
    IF Len(summary) = 0 THEN None
    ELSE LET rows == {summary[i].epoch : i \in DOMAIN summary}
         IN CHOOSE p \in rows : \A q \in rows : ~EpochLess(p, q)

\* io.get_next_epoch(epoch): successor of a position, (1,1) after None
get_next_epoch(epoch) ==
    IF epoch = None THEN <<1, 1>>
    ELSE IF epoch[2] >= n_train_files THEN <<epoch[1] + 1, 1>>
    ELSE <<epoch[1], epoch[2] + 1>>

\* a row put in front of the others
record_training_m(rows, epoch) == <<Row(epoch)>> \o rows

\* record_training: append the row of a newly trained position
record_training(rows, epoch) == Append(rows, Row(epoch))

\* a validation marked in every row up to the position
record_validation_m(rows, epoch) ==
    [i \in DOMAIN rows |->
        IF ~EpochLess(epoch, rows[i].epoch)
        THEN [rows[i] EXCEPT !.is_validated = TRUE]
        ELSE rows[i]]

\* record_validation: mark the row of a position as validated
record_validation(rows, epoch) ==
    [i \in DOMAIN rows |->
        IF rows[i].epoch = epoch
        THEN [rows[i] EXCEPT !.is_validated = TRUE]
        ELSE rows[i]]

\* ------------------------------------------------------- Organizer

\* val_is_due with the epoch number taken for the file number
val_is_due_for_m(epoch, n_files, interval) ==
    (epoch[2] = n_files) \/
    (interval # None /\ epoch[1] % interval[1] = 0)

\* Organizer.val_is_due for given train file count and interval
val_is_due_for(epoch, n_files, interval) ==
    (epoch[2] = n_files) \/
    (interval # None /\ epoch[2] % interval[1] = 0)

\* Organizer.val_is_due(epoch)
val_is_due(epoch) == val_is_due_for(epoch, n_train_files, validate_interval)

\* os.path.isfile(model_path) in Organizer.train
model_exists(epoch) == epoch \in saved_models

\* train() advancing the position once more than it should
train_position_m == get_next_epoch(get_next_epoch(get_latest_epoch))

\* the position Organizer.train is about to train
train_position == get_next_epoch(get_latest_epoch)

\* _get_model: a new training needs a model from the caller
model_missing(model) == get_latest_epoch = None /\ model = "none"

\* validate() without its "Has already been validated" refusal
validate_error_m ==
    IF get_latest_epoch = None
    THEN "ValueError: No saved model found"
    ELSE "ok"

\* the two refusals at the top of Organizer.validate
validate_error ==
    IF get_latest_epoch = None
    THEN "ValueError: No saved model found"
    ELSE IF get_state[Len(get_state)].is_validated
    THEN "ValueError: Has already been validated"
    ELSE "ok"

\* train_and_validate without the check for a missing validation
validation_missing_m == FALSE

\* train_and_validate: is the validation of the latest position missing
validation_missing ==
    /\ get_latest_epoch # None
    /\ get_state[Len(get_state)].is_validated = FALSE
    /\ val_is_due(get_latest_epoch)

\* An exception leaves the running call and every caller above it;
\* nothing catches it, so _stored_model stays as it is.
Raise(e) ==
    /\ error' = e
    /\ pc' = "idle"
    /\ ret' = "idle"
    /\ train_epoch' = None
    /\ val_epoch' = None
    /\ tav_next_epoch' = None
    /\ tav_file_no' = 0
    /\ tav_trained_epochs' = 0
    /\ tav_epochs' = <<0>>

\* train() setting the learning rate before it looks for the saved model
TrainBegin_m(model, r) ==
    IF model_missing(model)
    THEN /\ Raise("ValueError: You gave None")
         /\ lr_set' = FALSE
         /\ batches_read' = FALSE
         /\ UNCHANGED <<config_vars, summary, saved_models, partial_models,
                        stored_model, val_evaluated, seen_vars>>
    ELSE IF model_exists(train_position)
    THEN /\ Raise("FileExistsError")
         /\ lr_set' = TRUE
         /\ batches_read' = FALSE
         /\ UNCHANGED <<config_vars, summary, saved_models, partial_models,
                        stored_model, val_evaluated, seen_vars>>
    ELSE /\ pc' = "train_fit"
         /\ ret' = r
         /\ train_epoch' = train_position
         /\ lr_set' = TRUE
         /\ batches_read' = FALSE
         /\ error' = "running"
         /\ UNCHANGED <<config_vars, summary, saved_models, partial_models,
                        stored_model, val_epoch, tav_vars, val_evaluated,
                        seen_vars>>

\* Organizer.train up to the start of the pass over the file
TrainBegin(model, r) ==
    IF model_missing(model)
    THEN /\ Raise("ValueError: You gave None")
         /\ lr_set' = FALSE
         /\ batches_read' = FALSE
         /\ UNCHANGED <<config_vars, summary, saved_models, partial_models,
                        stored_model, val_evaluated, seen_vars>>
    ELSE IF model_exists(train_position)
    THEN /\ Raise("FileExistsError")
         /\ lr_set' = FALSE
         /\ batches_read' = FALSE
         /\ UNCHANGED <<config_vars, summary, saved_models, partial_models,
                        stored_model, val_evaluated, seen_vars>>
    ELSE /\ pc' = "train_fit"
         /\ ret' = r
         /\ train_epoch' = train_position
         /\ lr_set' = TRUE
         /\ batches_read' = FALSE
         /\ error' = "running"
         /\ UNCHANGED <<config_vars, summary, saved_models, partial_models,
                        stored_model, val_epoch, tav_vars, val_evaluated,
                        seen_vars>>

\* orga.train(model), called by the user
Train(model) ==
    /\ pc = "idle"
    /\ train_position[1] <= MaxEpoch
    /\ TrainBegin(model, "idle")

\* backend.train_model: the pass over the train file
TrainFit ==
    /\ pc = "train_fit"
    /\ pc' = "train_save"
    /\ batches_read' = TRUE
    /\ UNCHANGED <<config_vars, summary, saved_models, partial_models, ret,
                   stored_model, train_epoch, val_epoch, tav_vars, error,
                   lr_set, val_evaluated, seen_vars>>

\* model.save(model_path) creates the file ...
TrainSaveBegin ==
    /\ pc = "train_save"
    /\ pc' = "train_saving"
    /\ saved_models' = saved_models \cup {train_epoch}
    /\ partial_models' = partial_models \cup {train_epoch}
    /\ UNCHANGED <<config_vars, summary, ret, stored_model, train_epoch,
                   val_epoch, tav_vars, error, lr_set, batches_read,
                   val_evaluated, seen_vars>>

\* ... and completes it
TrainSaveEnd ==
    /\ pc = "train_saving"
    /\ pc' = "train_log"
    /\ partial_models' = partial_models \ {train_epoch}
    /\ UNCHANGED <<config_vars, summary, saved_models, ret, stored_model,
                   train_epoch, val_epoch, tav_vars, error, lr_set,
                   batches_read, val_evaluated, seen_vars>>

\* the return of train() to its caller
TrainReturn ==
    /\ pc' = ret
    /\ ret' = "idle"
    /\ train_epoch' = None
    /\ error' = IF ret = "idle" THEN "none" ELSE error

\* train() returning without a row in the summary log
TrainLog_m ==
    /\ pc = "train_log"
    /\ summary' = summary
    /\ fresh' = FALSE
    /\ last_trained' = train_epoch
    /\ IF cleanup_models
       THEN /\ pc' = "train_cleanup"
            /\ UNCHANGED <<ret, train_epoch, error>>
       ELSE TrainReturn
    /\ UNCHANGED <<config_vars, saved_models, partial_models, stored_model,
                   val_epoch, tav_vars, lr_set, batches_read, val_evaluated,
                   val_log>>

\* smry_logger.write_line(...), then cleanup_models() if cfg.cleanup_models
\* is set, else the return of train()
TrainLog ==
    /\ pc = "train_log"
    /\ summary' = record_training(summary, train_epoch)
    /\ fresh' = FALSE
    /\ last_trained' = train_epoch
    /\ IF cleanup_models
       THEN /\ pc' = "train_cleanup"
            /\ UNCHANGED <<ret, train_epoch, error>>
       ELSE TrainReturn
    /\ UNCHANGED <<config_vars, saved_models, partial_models, stored_model,
                   val_epoch, tav_vars, lr_set, batches_read, val_evaluated,
                   val_log>>

\* validate() evaluating the model before it checks whether it may
ValidateBegin_m(r) ==
    IF validate_error # "ok"
    THEN /\ Raise(validate_error)
         /\ val_evaluated' = TRUE
         /\ UNCHANGED <<config_vars, summary, saved_models, partial_models,
                        stored_model, lr_set, batches_read, seen_vars>>
    ELSE /\ pc' = "val_run"
         /\ ret' = r
         /\ val_epoch' = get_latest_epoch
         /\ val_evaluated' = FALSE
         /\ error' = "running"
         /\ UNCHANGED <<config_vars, summary, saved_models, partial_models,
                        stored_model, train_epoch, tav_vars, lr_set,
                        batches_read, seen_vars>>

\* Organizer.validate up to the start of the evaluation
ValidateBegin(r) ==
    IF validate_error # "ok"
    THEN /\ Raise(validate_error)
         /\ val_evaluated' = FALSE
         /\ UNCHANGED <<config_vars, summary, saved_models, partial_models,
                        stored_model, lr_set, batches_read, seen_vars>>
    ELSE /\ pc' = "val_run"
         /\ ret' = r
         /\ val_epoch' = get_latest_epoch
         /\ val_evaluated' = FALSE
         /\ error' = "running"
         /\ UNCHANGED <<config_vars, summary, saved_models, partial_models,
                        stored_model, train_epoch, tav_vars, lr_set,
                        batches_read, seen_vars>>

\* orga.validate(), called by the user
Validate ==
    /\ pc = "idle"
    /\ ValidateBegin("idle")

\* backend.validate_model: the passes over the validation files
ValidateRun ==
    /\ pc = "val_run"
    /\ pc' = "val_log"
    /\ val_evaluated' = TRUE
    /\ UNCHANGED <<config_vars, summary, saved_models, partial_models, ret,
                   stored_model, train_epoch, val_epoch, tav_vars, error,
                   lr_set, batches_read, seen_vars>>

\* the return of validate() to its caller
ValidateReturn ==
    /\ val_epoch' = None
    /\ pc' = IF ret = "tav_after_val" THEN "tav_for" ELSE ret
    /\ ret' = "idle"
    /\ tav_file_no' = IF ret = "tav_after_val"
                      THEN tav_file_no + 1 ELSE tav_file_no
    /\ error' = IF ret = "idle" THEN "none" ELSE error

\* smry_logger.write_line(..., history_val), then cleanup_models() if
\* cfg.cleanup_models is set, else the return of validate()
ValidateLog ==
    /\ pc = "val_log"
    /\ summary' = record_validation(summary, val_epoch)
    /\ val_log' = Append(val_log,
            [pos |-> val_epoch,
             via |-> IF ret = "idle" THEN "direct" ELSE "tav"])
    /\ IF cleanup_models
       THEN /\ pc' = "val_cleanup"
            /\ UNCHANGED <<val_epoch, ret, tav_file_no, error>>
       ELSE ValidateReturn
    /\ UNCHANGED <<config_vars, saved_models, partial_models, stored_model,
                   train_epoch, tav_next_epoch, tav_trained_epochs,
                   tav_epochs, lr_set, batches_read, val_evaluated, fresh,
                   last_trained>>

\* orga.train_and_validate(model, epochs): _get_model, _stored_model = model
TrainAndValidate(model, epochs) ==
    /\ pc = "idle"
    /\ epochs # None => train_position[1] + epochs[1] - 1 <= MaxEpoch
    /\ IF model_missing(model)
       THEN /\ Raise("ValueError: You gave None")
            /\ UNCHANGED stored_model
       ELSE /\ stored_model' = TRUE
            /\ pc' = "tav_check"
            /\ tav_next_epoch' = get_next_epoch(get_latest_epoch)
            /\ tav_epochs' = epochs
            /\ tav_trained_epochs' = 0
            /\ tav_file_no' = 0
            /\ error' = "running"
            /\ UNCHANGED <<ret, train_epoch, val_epoch>>
    /\ UNCHANGED <<config_vars, summary, saved_models, partial_models,
                   lr_set, batches_read, val_evaluated, seen_vars>>

\* check if the validation is missing for the latest fileno
TavCheck ==
    /\ pc = "tav_check"
    /\ IF validation_missing
       THEN ValidateBegin("tav_while")
       ELSE /\ pc' = "tav_while"
            /\ UNCHANGED <<config_vars, summary, saved_models,
                           partial_models, ret, stored_model, train_epoch,
                           val_epoch, tav_vars, error, lr_set, batches_read,
                           val_evaluated, seen_vars>>

\* a loop that trains one epoch more
tav_continue_m ==
    tav_epochs = None \/ tav_trained_epochs <= tav_epochs[1]

\* epochs is None or trained_epochs < epochs
tav_continue ==
    tav_epochs = None \/ tav_trained_epochs < tav_epochs[1]

\* while epochs is None or trained_epochs < epochs
TavWhile ==
    /\ pc = "tav_while"
    /\ IF tav_continue
       THEN /\ pc' = "tav_for"
            /\ tav_file_no' = tav_next_epoch[2]
            /\ UNCHANGED <<stored_model, error, tav_next_epoch,
                           tav_trained_epochs, tav_epochs>>
       ELSE /\ pc' = "idle"
            /\ stored_model' = FALSE
            /\ error' = "none"
            /\ tav_next_epoch' = None
            /\ tav_file_no' = 0
            /\ tav_trained_epochs' = 0
            /\ tav_epochs' = <<0>>
    /\ UNCHANGED <<config_vars, summary, saved_models, partial_models, ret,
                   train_epoch, val_epoch, lr_set, batches_read,
                   val_evaluated, seen_vars>>

\* for file_no in range(next_epoch[1], n_train_files + 1): self.train(model)
TavFor ==
    /\ pc = "tav_for"
    /\ tav_file_no <= n_train_files => train_position[1] <= MaxEpoch
    /\ IF tav_file_no <= n_train_files
       THEN TrainBegin("given", "tav_after_train")
       ELSE /\ pc' = "tav_while"
            /\ tav_next_epoch' = <<tav_next_epoch[1] + 1, 1>>
            /\ tav_trained_epochs' = tav_trained_epochs + 1
            /\ tav_file_no' = 0
            /\ UNCHANGED <<config_vars, summary, saved_models,
                           partial_models, ret, stored_model, train_epoch,
                           val_epoch, tav_epochs, error, lr_set,
                           batches_read, val_evaluated, seen_vars>>

\* curr_epoch = (next_epoch[0], file_no) of the train_and_validate loop
curr_epoch == <<tav_next_epoch[1], tav_file_no>>

\* if self.val_is_due(curr_epoch): self.validate()
TavAfterTrain ==
    /\ pc = "tav_after_train"
    /\ IF val_is_due(curr_epoch)
       THEN /\ ValidateBegin("tav_after_val")
       ELSE /\ pc' = "tav_for"
            /\ tav_file_no' = tav_file_no + 1
            /\ UNCHANGED <<config_vars, summary, saved_models,
                           partial_models, ret, stored_model, train_epoch,
                           val_epoch, tav_next_epoch, tav_trained_epochs,
                           tav_epochs, error, lr_set, batches_read,
                           val_evaluated, seen_vars>>

\* The process is killed (anywhere inside a call) or ends, and a new
\* Organizer is made on the same output folder.
Restart ==
    /\ pc' = "idle"
    /\ ret' = "idle"
    /\ stored_model' = FALSE
    /\ train_epoch' = None
    /\ val_epoch' = None
    /\ tav_next_epoch' = None
    /\ tav_file_no' = 0
    /\ tav_trained_epochs' = 0
    /\ tav_epochs' = <<0>>
    /\ error' = IF pc = "idle" THEN "none" ELSE "killed"
    /\ lr_set' = FALSE
    /\ batches_read' = FALSE
    /\ val_evaluated' = FALSE
    /\ fresh' = TRUE
    /\ UNCHANGED <<config_vars, summary, saved_models, partial_models,
                   last_trained, val_log>>

\* ------------------------------------------- hdf5_batch_generator

Min(a, b) == IF a < b THEN a ELSE b
Max(a, b) == IF a > b THEN a ELSE b

\* int(np.ceil(a / b)) for a >= 0, b > 0
CeilDiv(a, b) == (a + b - 1) \div b

\* batchsize after "if f_size < batchsize: batchsize = f_size"
batchsize ==
    IF gen_f_size # None /\ gen_f_size[1] < gen_cfg_batchsize
    THEN gen_f_size[1]
    ELSE gen_cfg_batchsize

\* f_size after "if f_size is None: f_size = file_lengths[0]"
f_size == IF gen_f_size = None THEN gen_file_len ELSE gen_f_size[1]

\* total_no_of_batches = int(np.ceil(f_size/batchsize))
total_no_of_batches == CeilDiv(f_size, batchsize)

\* the offsets in decreasing order
arange_pos_m ==
    [i \in 1..total_no_of_batches |-> (total_no_of_batches - i) * batchsize]

\* np.arange(total_no_of_batches) * batchsize
arange_pos == [i \in 1..total_no_of_batches |-> (i - 1) * batchsize]

\* the orders np.random.shuffle can leave sample_pos in
Shuffles(pos) ==
    {[i \in DOMAIN pos |-> pos[perm[i]]] :
        perm \in {q \in [DOMAIN pos -> DOMAIN pos] :
                    \A i, j \in DOMAIN pos : i # j => q[i] # q[j]}}

\* s[:k]
Head_k(seq, k) == SubSeq(seq, 1, Min(k, Len(seq)))

\* a tail taken from the order before the shuffle
append_preload_m(pos) == pos \o Head_k(arange_pos, gen_max_queue_size)

\* np.append(sample_pos, sample_pos[:orga.cfg.max_queue_size])
append_preload(pos) == pos \o Head_k(pos, gen_max_queue_size)

\* len(dataset[sample_n : sample_n + batchsize]) for a dataset of file_len rows
slice_len(sample_n, file_len) ==
    Max(0, Min(file_len, sample_n + batchsize) - Min(file_len, sample_n))

\* file_lengths: len(files[input_key][samples_key]) for every input_key of
\* files_dict (one input, or two read in parallel)
file_lengths ==
    IF gen_other_len = None THEN <<gen_file_len>>
                            ELSE <<gen_file_len, gen_other_len[1]>>

\* the keys of files_dict
files_dict == DOMAIN file_lengths

\* the length check left out
same_length_m == TRUE

\* file_lengths.count(file_lengths[0]) == len(file_lengths)
same_length == \A i \in files_dict : file_lengths[i] = file_lengths[1]

\* leaving the with block without releasing the files
exit_stack_m(opened) == opened

\* the files still open after "with ExitStack() as stack:" is left, by the
\* end of the for loop, by an exception or by the closing of the generator
exit_stack(opened) == {}

\* the batch read at offset sample_n: the leading dimensions of xs (one
\* array per input), of ys = label_modifier(y_values) and of y_values (the
\* mc_info, when yielded).  y_values is read from the first file, whose
\* label dataset has one row per sample; size is the number of samples.
read_batch(sample_n) ==
    [start |-> sample_n,
     size  |-> slice_len(sample_n, file_lengths[1]),
     xs    |-> [i \in files_dict |-> slice_len(sample_n, file_lengths[i])],
     ys    |-> slice_len(sample_n, gen_file_len),
     mc    |-> IF gen_yield_mc THEN <<slice_len(sample_n, gen_file_len)>>
                               ELSE None]

\* next(generator): the first call opens the files, compares their lengths
\* and runs the generator up to its first yield, a later one up to the
\* next yield or to the end of the for loop.
GenNext ==
    IF gen_pc = "created"
    THEN /\ gen_opened' = files_dict
         /\ IF same_length
            THEN /\ \E pos \in (IF gen_shuffle THEN Shuffles(arange_pos)
                                              ELSE {arange_pos}) :
                      /\ gen_sample_pos' = append_preload(pos)
                      /\ gen_batches' = <<read_batch(pos[1])>>
                 /\ gen_pc' = "running"
                 /\ gen_open' = files_dict
                 /\ gen_error' = "none"
            ELSE /\ gen_pc' = "raised"
                 /\ gen_open' = exit_stack(files_dict)
                 /\ gen_error' = "ValueError"
                 /\ UNCHANGED <<gen_sample_pos, gen_batches>>
         /\ UNCHANGED cons_starved
    ELSE IF Len(gen_batches) < Len(gen_sample_pos)
    THEN /\ gen_batches' = Append(gen_batches,
                read_batch(gen_sample_pos[Len(gen_batches) + 1]))
         /\ UNCHANGED <<gen_pc, gen_sample_pos, cons_starved, gen_files>>
    ELSE /\ gen_pc' = "exhausted"
         /\ gen_open' = exit_stack(gen_open)
         /\ cons_starved' = (cons_mode = "prefetch")
         /\ UNCHANGED <<gen_sample_pos, gen_batches, gen_opened, gen_error>>

\* generator.close(), also run when the last reference to a generator that
\* has started goes away: GeneratorExit is raised at the yield and the with
\* block is left
GenClose ==
    /\ gen_pc' = IF gen_pc = "running" THEN "closed" ELSE gen_pc
    /\ gen_open' = exit_stack(gen_open)
    /\ UNCHANGED <<gen_sample_pos, gen_batches, gen_opened, gen_error,
                   cons_starved>>

\* the consumer's worker fetches a batch while fewer than max_queue_size
\* fetched batches are waiting (fit_generator(..., max_queue_size=...));
\* a list(generator) fetches until the generator ends
Pull ==
    /\ gen_pc \in {"created", "running"}
    /\ cons_mode = "prefetch"
          => Len(gen_batches) - cons_consumed < gen_max_queue_size
    /\ GenNext
    /\ UNCHANGED <<gen_args, cons_consumed, non_gen_vars>>

\* the consumer uses the next fetched batch; it uses every regular batch
Consume ==
    /\ gen_pc \in {"running", "exhausted"}
    /\ cons_consumed < Len(gen_batches)
    /\ cons_consumed < total_no_of_batches
    /\ cons_consumed' = cons_consumed + 1
    /\ UNCHANGED <<gen_args, gen_pc, gen_sample_pos, gen_batches,
                   gen_files, cons_starved, non_gen_vars>>

\* ------------------------------------- passes over the files of a split

RECURSIVE sum(_)
\* sum(file_sizes)
sum(sizes) == IF sizes = <<>> THEN 0 ELSE Head(sizes) + sum(Tail(sizes))

\* the f_size argument the pass gives to hdf5_batch_generator for a file:
\* cfg.n_events or the size of the file (train_model, validate_model),
\* nothing (make_model_prediction), samples (save_actv_wghts_plot)
pass_f_size(file_len) ==
    CASE pass_kind \in {"train", "validate"} ->
            IF pass_n_events # None THEN pass_n_events ELSE <<file_len>>
      [] pass_kind = "predict" -> None
      [] OTHER -> pass_samples

\* steps_per_epoch = steps = int(f_size / orga.cfg.batchsize)
steps_per_epoch == f_size \div gen_cfg_batchsize

\* make_model_prediction without the smaller step in the end
predict_steps_m ==
    IF pass_samples = None
    THEN pass_files[pass_f_number] \div gen_cfg_batchsize
    ELSE pass_samples[1] \div gen_cfg_batchsize

\* steps of make_model_prediction for the file it is at
predict_steps ==
    IF pass_samples = None
    THEN (pass_files[pass_f_number] \div gen_cfg_batchsize)
         + (IF pass_files[pass_f_number] % gen_cfg_batchsize # 0
            THEN 1 ELSE 0)
    ELSE pass_samples[1] \div gen_cfg_batchsize

\* batches the pass takes from the generator of the file it is at;
\* save_actv_wghts_plot takes one
steps ==
    CASE pass_kind \in {"train", "validate"} -> steps_per_epoch
      [] pass_kind = "predict" -> predict_steps
      [] OTHER -> 1

\* fit_generator / evaluate_generator fetch ahead through a queue,
\* make_model_prediction and save_actv_wghts_plot call next() themselves
queued == pass_kind \in {"train", "validate"}

\* hdf5_batch_generator(orga, files_dict, ...) for file i of the pass; the
\* call only makes the generator, no file is opened yet
NewGenerator(i, other) ==
    /\ gen_file_len' = pass_files[i]
    /\ gen_other_len' = other
    /\ gen_f_size' = pass_f_size(pass_files[i])
    /\ gen_pc' = "created"
    /\ gen_sample_pos' = <<>>
    /\ gen_batches' = <<>>
    /\ gen_opened' = {}
    /\ gen_open' = {}
    /\ gen_error' = "none"
    /\ cons_consumed' = 0
    /\ cons_starved' = FALSE
    /\ UNCHANGED <<gen_yield_mc, gen_cfg_batchsize, gen_max_queue_size,
                   gen_shuffle, cons_mode>>

\* a second input for a file: none, one of the same length, or one of
\* another length
OtherInputs(file_len) ==
    {None, <<file_len>>, <<(file_len % MaxSamples) + 1>>}

\* next(generator), by the worker of the queue while the queue is not full,
\* or by the pass itself when it needs its next batch
PassPull ==
    /\ pass_pc = "running"
    /\ gen_pc \in {"created", "running"}
    /\ IF queued
       THEN Len(gen_batches) - cons_consumed < gen_max_queue_size
       ELSE Len(gen_batches) = cons_consumed /\ cons_consumed < steps
    /\ GenNext
    /\ UNCHANGED <<gen_args, cons_consumed, pass_vars, non_pass_vars>>

\* data.shape[0] of every dataset get_datasets makes of a batch
datasets(batch) ==
    [mc_info |-> batch.mc[1], label |-> batch.ys, pred |-> batch.xs[1]]

\* the samples of a batch: the rows sample_n : sample_n + batchsize of the
\* file the pass is at, as far as the file has them
batch_samples(batch) ==
    [k \in 1..batch.size |-> <<pass_f_number, batch.start + k>>]

\* maxshape[0] of every dataset of the prediction file
total_file_size == sum(pass_files)

\* the pass uses the next batch it was given: one training / evaluation
\* step of the model, or predict_on_batch and the write of its datasets
PassStep ==
    /\ pass_pc = "running"
    /\ cons_consumed < Len(gen_batches)
    /\ cons_consumed < steps
    /\ IF pass_kind = "predict"
       THEN LET data == datasets(gen_batches[cons_consumed + 1])
            IN IF ~pred_created
               THEN /\ pred_rows' = data
                    /\ pred_created' = TRUE
                    /\ pred_written' =
                          pred_written + gen_batches[cons_consumed + 1].size
                    /\ pred_index' = pred_index \o
                          batch_samples(gen_batches[cons_consumed + 1])
                    /\ cons_consumed' = cons_consumed + 1
                    /\ UNCHANGED <<pass_pc, pass_error>>
               ELSE IF \E n \in DOMAIN data :
                          pred_rows[n] + data[n] > total_file_size
               THEN \* resize() beyond maxshape
                    /\ pass_pc' = "failed"
                    /\ pass_error' = "ValueError"
                    /\ UNCHANGED <<pred_vars, cons_consumed>>
               ELSE /\ pred_rows' = [n \in DOMAIN data |->
                                        pred_rows[n] + data[n]]
                    /\ pred_written' =
                          pred_written + gen_batches[cons_consumed + 1].size
                    /\ pred_index' = pred_index \o
                          batch_samples(gen_batches[cons_consumed + 1])
                    /\ cons_consumed' = cons_consumed + 1
                    /\ UNCHANGED <<pred_created, pass_pc, pass_error>>
       ELSE /\ cons_consumed' = cons_consumed + 1
            /\ UNCHANGED <<pred_vars, pass_pc, pass_error>>
    /\ UNCHANGED <<gen_args, gen_pc, gen_sample_pos, gen_batches, gen_files,
                   cons_starved, pass_args, pass_f_number, pass_leaked,
                   non_pass_vars>>

\* the exception of the generator comes out of the pass: the ValueError of
\* the length check, or the StopIteration of a next() past the last batch
PassFail ==
    /\ pass_pc = "running"
    /\ \/ gen_pc = "raised"
       \/ (~queued /\ gen_pc = "exhausted"
             /\ cons_consumed = Len(gen_batches) /\ cons_consumed < steps)
    /\ pass_pc' = "failed"
    /\ pass_error' = IF gen_pc = "raised" THEN gen_error ELSE "StopIteration"
    /\ UNCHANGED <<gen_vars, pass_args, pass_f_number, pass_leaked,
                   pred_vars, non_pass_vars>>

\* the steps of this file are done and the loop over the files goes on: the
\* name of the generator is bound to a new one, the old one goes away
PassNextFile ==
    /\ pass_pc = "running"
    /\ pass_kind \in {"validate", "predict"}
    /\ gen_pc # "raised"
    /\ cons_consumed = steps
    /\ pass_f_number < Len(pass_files)
    /\ pass_f_number' = pass_f_number + 1
    /\ pass_leaked' = pass_leaked
          \cup {<<pass_f_number, i>> : i \in exit_stack(gen_open)}
    /\ \E other \in OtherInputs(pass_files[pass_f_number + 1]) :
          NewGenerator(pass_f_number + 1, other)
    /\ UNCHANGED <<pass_args, pass_pc, pass_error, pred_vars, non_pass_vars>>

\* the pass returns and keeps its generator
PassEnd_m ==
    /\ pass_pc = "running"
    /\ gen_pc # "raised"
    /\ cons_consumed = steps
    /\ pass_f_number = Len(pass_files) \/ pass_kind \in {"train", "plot"}
    /\ pass_pc' = "finished"
    /\ UNCHANGED <<gen_vars, pass_args, pass_f_number, pass_leaked,
                   pass_error, pred_vars, non_pass_vars>>

\* the steps of the last file are done and the pass returns: its generator
\* goes away with it
PassEnd ==
    /\ pass_pc = "running"
    /\ gen_pc # "raised"
    /\ cons_consumed = steps
    /\ pass_f_number = Len(pass_files) \/ pass_kind \in {"train", "plot"}
    /\ pass_pc' = "finished"
    /\ GenClose
    /\ UNCHANGED <<gen_args, cons_consumed, pass_args, pass_f_number,
                   pass_leaked, pass_error, pred_vars, non_pass_vars>>

\* ------------------------------------------------ get_learning_rate

\* numbers are fractions [num, den] with den > 0
Num(a, b) == [num |-> a, den |-> b]

\* the floats a learning rate or a decay is drawn from
Numbers == {Num(a, 2) : a \in 0..MaxNum}

RECURSIVE Pow(_, _)
\* a ** k for integers a, k >= 0
Pow(a, k) == IF k = 0 THEN 1 ELSE a * Pow(a, k - 1)

\* x * y
NumMul(x, y) == Num(x.num * y.num, x.den * y.den)

\* x ** k
NumPow(x, k) == Num(Pow(x.num, k), Pow(x.den, k))

\* 1 - x
OneMinus(x) == Num(x.den - x.num, x.den)

\* x == y
NumEq(x, y) == x.num * y.den = y.num * x.den

\* an entry that float() refuses (a word, None)
NotANumber == Num(0, 0)

\* the entries a sequence given as learning rate can hold
Items == Numbers \cup {NotANumber}

\* the values of user_lr: something float() takes, None, a list or tuple,
\* or a function of n_params parameters
UserLrs ==
    {[kind |-> "float", val |-> v] : v \in Numbers}
    \cup {[kind |-> "None"]}
    \cup {[kind |-> "seq", items |-> it] :
            it \in UNION {[1..n -> Items] : n \in 0..MaxLrLen}}
    \cup {[kind |-> "func", n_params |-> n] : n \in 0..3}

\* the function a user gives as learning rate (one example)
user_fn(epoch_no, file_no) == Num(1, epoch_no + file_no)

Return(lr) == [out |-> "return", lr |-> lr]
Raised(exc) == [out |-> "raise", exc |-> exc]
\* the except clause has caught the error: go on with the next form
Pass == [out |-> "pass"]

\* try: lr = float(user_lr); return lr
try_float(user_lr) ==
    IF user_lr.kind = "float" THEN Return(user_lr.val) ELSE Pass

\* epoch[1] + epoch[0] * no_train_files (the tuple is indexed from 1 here)
decay_exponent(epoch, no_train_files) ==
    epoch[2] + epoch[1] * no_train_files

\* try: length = len(user_lr); lr_init = float(user_lr[0]);
\* lr_decay = float(user_lr[1]); if length != 2: raise TypeError; ...
\* except (ValueError, TypeError): pass
try_decay(epoch, user_lr, no_train_files) ==
    IF user_lr.kind # "seq" THEN Pass
    ELSE IF Len(user_lr.items) = 0 THEN Raised("IndexError")
    ELSE IF user_lr.items[1] \notin Numbers THEN Pass
    ELSE IF Len(user_lr.items) = 1 THEN Raised("IndexError")
    ELSE IF user_lr.items[2] \notin Numbers THEN Pass
    ELSE IF Len(user_lr.items) # 2 THEN Pass
    ELSE Return(NumMul(user_lr.items[1],
                       NumPow(OneMinus(user_lr.items[2]),
                              decay_exponent(epoch, no_train_files))))

\* try: n_params = len(signature(user_lr).parameters); ...
\* except (ValueError, TypeError): raise TypeError
try_function(epoch, user_lr) ==
    IF user_lr.kind # "func" THEN Raised("TypeError")
    ELSE IF user_lr.n_params # 2 THEN Raised("TypeError")
    ELSE Return(user_fn(epoch[1], epoch[2]))

get_learning_rate(epoch, user_lr, no_train_files) ==
    IF try_float(user_lr) # Pass THEN try_float(user_lr)
    ELSE IF try_decay(epoch, user_lr, no_train_files) # Pass
    THEN try_decay(epoch, user_lr, no_train_files)
    ELSE try_function(epoch, user_lr)

\* lr = get_learning_rate(curr_epoch, orga.cfg.learning_rate, n_train_files)
GetLearningRate ==
    /\ lr_result = Pass
    /\ lr_result' = get_learning_rate(lr_epoch, lr_user_lr, lr_no_train_files)
    /\ UNCHANGED <<lr_epoch, lr_user_lr, lr_no_train_files, non_lr_vars>>

\* ------------------------------------- validate_model: the average

\* names a model can have for its loss and metrics
MetricNames == <<"loss", "acc", "mse", "mae">>

RECURSIVE col_sum(_, _)
\* sum(col) for column c of zip(*histories)
col_sum(histories, c) ==
    IF histories = <<>> THEN 0
    ELSE Head(histories)[c] + col_sum(Tail(histories), c)

\* validate_model giving the values of its first file
averaged_m(histories) ==
    [c \in DOMAIN histories[1] |-> Num(histories[1][c], 1)]

\* [sum(col) / float(len(col)) for col in zip(*histories)]
\* if len(histories) > 1 else histories[0]
averaged(histories) ==
    IF Len(histories) > 1
    THEN [c \in 1..Len(histories[1]) |->
            Num(col_sum(histories, c), Len(histories))]
    ELSE [c \in DOMAIN histories[1] |-> Num(histories[1][c], 1)]

\* dict(zip(names, values))
dict_zip(names, values) ==
    [n \in {names[i] : i \in 1..Min(Len(names), Len(values))} |->
        values[CHOOSE i \in 1..Min(Len(names), Len(values)) : names[i] = n]]

\* history_val = dict(zip(model.metrics_names, history_val))
history_val == dict_zip(vm_metrics_names, averaged(vm_histories))

\* validate_model, after the loop over the validation files
ValidateModelReturn ==
    /\ vm_pc = "evaluated"
    /\ vm_result' = history_val
    /\ vm_pc' = "returned"
    /\ UNCHANGED <<vm_metrics_names, vm_histories, non_vm_vars>>

\* ------------------------------------------------ Organizer.predict

\* the positions with a saved model that predict is asked for
PredPositions == {<<1, 1>>, <<1, 2>>}

\* the path of the prediction of a position on val file f_number
PredPath(epoch, f_number) == <<epoch[1], epoch[2], f_number>>

\* the path of the file in predictions/concatenated
ConcPath == <<0, 0, 0>>

\* io.get_latest_prediction_file_no(epoch, fileno): the highest val file
\* number with a prediction file of the position, None without any
get_latest_prediction_file_no(epoch) ==
    IF pr_pred_files[epoch] = {} THEN None
    ELSE <<CHOOSE f \in pr_pred_files[epoch] :
              \A g \in pr_pred_files[epoch] : g <= f>>

\* io.get_pred_files_list(epoch, fileno): the paths of the prediction
\* files of the position, in the order of the val files
get_pred_files_list(epoch) ==
    [i \in 1..Cardinality(pr_pred_files[epoch]) |->
        PredPath(epoch, CHOOSE f \in pr_pred_files[epoch] :
            Cardinality({g \in pr_pred_files[epoch] : g <= f}) = i)]

\* a check that never finds the prediction done
check_if_pred_already_done_m(epoch) == FALSE

\* Organizer._check_if_pred_already_done
check_if_pred_already_done(epoch) ==
    /\ get_latest_prediction_file_no(epoch) # None
    /\ get_latest_prediction_file_no(epoch)[1] = pr_n_val_files

\* a prediction that starts over with the first val file
first_remaining_m(latest_pred_file_no) == 1

\* backend.make_model_prediction(orga, model, epoch, fileno): the first of
\* the remaining val files
first_remaining(latest_pred_file_no) ==
    IF latest_pred_file_no = None THEN 1 ELSE latest_pred_file_no[1] + 1

\* "concatenate all prediction files if wished": what is written and
\* returned once the prediction files of the position are there
Concatenated(epoch, concatenate, wrote) ==
    IF concatenate /\ pr_n_val_files > 1
    THEN /\ pr_conc' = TRUE
         /\ pr_wrote' = (IF pr_conc THEN wrote ELSE wrote \cup {"conc"})
         /\ pr_return' = <<<<ConcPath>>>>
    ELSE /\ pr_return' = <<get_pred_files_list(epoch)>>
         /\ pr_wrote' = wrote
         /\ UNCHANGED pr_conc

\* orga.predict(epoch, fileno, concatenate) up to the start of the
\* prediction; all of it when the prediction has been done already
Predict(epoch, fileno, concatenate) ==
    /\ pr_pc = "idle"
    /\ ~(epoch = None /\ fileno = None)
    /\ pr_args' = [epoch |-> epoch, fileno |-> fileno,
                   concatenate |-> concatenate]
    /\ IF epoch = None \/ fileno = None
       THEN /\ pr_error' = "ValueError"
            /\ pr_return' = None
            /\ pr_was_done' = FALSE
            /\ pr_was_partial' = FALSE
            /\ pr_loaded' = FALSE
            /\ pr_ran' = FALSE
            /\ pr_wrote' = {}
            /\ UNCHANGED <<pr_pc, pr_f_number, pr_conc>>
       ELSE LET pos == <<epoch[1], fileno[1]>>
                latest == get_latest_prediction_file_no(pos)
            IN /\ pr_was_done' = (pr_pred_files[pos] = 1..pr_n_val_files)
               /\ pr_was_partial' =
                     (pr_pred_files[pos] \notin {{}, 1..pr_n_val_files})
               /\ IF check_if_pred_already_done(pos)
                  THEN /\ pr_loaded' = FALSE
                       /\ pr_ran' = FALSE
                       /\ Concatenated(pos, concatenate, {})
                       /\ pr_error' = "none"
                       /\ UNCHANGED <<pr_pc, pr_f_number>>
                  ELSE /\ pr_loaded' = TRUE
                       /\ pr_ran' = TRUE
                       /\ pr_f_number' = first_remaining(latest)
                       /\ pr_pc' = "predicting"
                       /\ pr_wrote' = {}
                       /\ UNCHANGED <<pr_return, pr_error, pr_conc>>
    /\ UNCHANGED <<pr_n_val_files, pr_pred_files, pr_produced,
                   pr_last_write, non_pr_vars>>

\* make_model_prediction: the prediction on one more val file is written
PredictGroup ==
    /\ pr_pc = "predicting"
    /\ pr_f_number <= pr_n_val_files
    /\ LET pos == <<pr_args.epoch[1], pr_args.fileno[1]>>
       IN /\ pr_pred_files' = [pr_pred_files EXCEPT
                                 ![pos] = @ \cup {pr_f_number}]
          /\ pr_last_write' =
                <<[epoch |-> pos, f_number |-> pr_f_number,
                   overwrote |-> pr_f_number \in pr_pred_files[pos]]>>
    /\ pr_f_number' = pr_f_number + 1
    /\ pr_wrote' = pr_wrote \cup {"pred"}
    /\ UNCHANGED <<pr_n_val_files, pr_conc, pr_pc, pr_call, pr_return,
                   pr_error, pr_produced, non_pr_vars>>

\* make_model_prediction is through: the rest of predict
PredictReturn ==
    /\ pr_pc = "predicting"
    /\ pr_f_number > pr_n_val_files
    /\ LET pos == <<pr_args.epoch[1], pr_args.fileno[1]>>
       IN /\ Concatenated(pos, pr_args.concatenate, pr_wrote)
          /\ pr_produced' =
                [pr_produced EXCEPT
                   ![pos] = <<[concatenate |-> pr_args.concatenate,
                               paths |-> pr_return'[1]]>>]
    /\ pr_error' = "none"
    /\ pr_pc' = "idle"
    /\ UNCHANGED <<pr_n_val_files, pr_pred_files, pr_f_number, pr_call,
                   pr_last_write, non_pr_vars>>

\* the process is killed while it predicts
PredictKill ==
    /\ pr_pc = "predicting"
    /\ pr_pc' = "idle"
    /\ pr_error' = "killed"
    /\ UNCHANGED <<pr_n_val_files, pr_pred_files, pr_conc, pr_f_number,
                   pr_call, pr_wrote, pr_return, pr_produced,
                   pr_last_write, non_pr_vars>>

\* ------------------------------------------- Organizer.cleanup_models

\* io.get_all_epochs(): the positions with a model file, in order
get_all_epochs == saved_models

\* the validated rows of the summary log
ValidatedRows == {i \in DOMAIN summary : cl_val_loss[i] # None}

\* a choice of the row with the highest val_loss
get_best_epoch_fileno_m ==
    IF ValidatedRows = {} THEN "ValueError"
    ELSE summary[CHOOSE i \in ValidatedRows :
            \A j \in ValidatedRows :
                \/ cl_val_loss[j][1] < cl_val_loss[i][1]
                \/ (cl_val_loss[j][1] = cl_val_loss[i][1] /\ j <= i)].epoch

\* history.get_best_epoch_fileno(metric="val_loss"): the position of the
\* first row with the lowest val_loss, ValueError without a validated row
get_best_epoch_fileno ==
    IF ValidatedRows = {} THEN "ValueError"
    ELSE summary[CHOOSE i \in ValidatedRows :
            \A j \in ValidatedRows :
                \/ cl_val_loss[i][1] < cl_val_loss[j][1]
                \/ (cl_val_loss[i][1] = cl_val_loss[j][1] /\ i <= j)].epoch

\* orga.cleanup_models()
CleanupModels ==
    /\ cl_pc = "idle"
    /\ cl_before' = saved_models
    /\ LET all_epochs == get_all_epochs
           latest_epoch == get_latest_epoch
           best_epoch == IF get_best_epoch_fileno = "ValueError"
                         THEN latest_epoch
                         ELSE get_best_epoch_fileno
       IN IF best_epoch \notin all_epochs \/ latest_epoch \notin all_epochs
          THEN /\ cl_pc' = "AssertionError"
               /\ UNCHANGED saved_models
          ELSE /\ cl_pc' = "returned"
               /\ saved_models' =
                     {epoch \in all_epochs :
                         epoch = best_epoch \/ epoch = latest_epoch}
    /\ UNCHANGED <<n_train_files, validate_interval, cleanup_models, summary,
                   partial_models, pc, ret, stored_model, train_epoch,
                   val_epoch, tav_vars, error, lr_set, batches_read,
                   val_evaluated, seen_vars, cl_val_loss, non_cl_vars>>

\* ---------------- cleanup_models at the end of train() and validate()

\* best_epoch of cleanup_models: latest_epoch where no best epoch exists
best_epoch ==
    IF ValidatedRows = {} THEN get_latest_epoch ELSE get_best_epoch_fileno

\* a cleanup that keeps the best model only
keeps_m(epoch) == epoch = best_epoch

\* if epoch == best_epoch or epoch == latest_epoch: the model is kept
keeps(epoch) == epoch = best_epoch \/ epoch = get_latest_epoch

\* the two assertions at the top of cleanup_models
CleanupAssert ==
    /\ pc \in {"train_cleanup", "val_cleanup"}
    /\ IF best_epoch \in get_all_epochs /\ get_latest_epoch \in get_all_epochs
       THEN /\ pc' = IF pc = "train_cleanup"
                     THEN "train_remove" ELSE "val_remove"
            /\ UNCHANGED <<ret, train_epoch, val_epoch, tav_vars, error>>
       ELSE Raise("AssertionError")
    /\ UNCHANGED <<config_vars, summary, saved_models, partial_models,
                   stored_model, lr_set, batches_read, val_evaluated,
                   seen_vars>>

\* for epoch in all_epochs: os.remove(model_path) of the next model that
\* is not kept
CleanupRemove ==
    /\ pc \in {"train_remove", "val_remove"}
    /\ \E epoch \in get_all_epochs : ~keeps(epoch)
    /\ LET epoch == CHOOSE e \in get_all_epochs :
                        /\ ~keeps(e)
                        /\ \A q \in get_all_epochs :
                              ~keeps(q) => ~EpochLess(q, e)
       IN /\ saved_models' = saved_models \ {epoch}
          /\ partial_models' = partial_models \ {epoch}
    /\ UNCHANGED <<config_vars, summary, pc, ret, stored_model, train_epoch,
                   val_epoch, tav_vars, error, lr_set, batches_read,
                   val_evaluated, seen_vars>>

\* the end of the loop of cleanup_models, and the return of train() or
\* validate()
CleanupReturn ==
    /\ pc \in {"train_remove", "val_remove"}
    /\ \A epoch \in get_all_epochs : keeps(epoch)
    /\ IF pc = "train_remove"
       THEN /\ TrainReturn
            /\ UNCHANGED <<val_epoch, tav_vars>>
       ELSE /\ ValidateReturn
            /\ UNCHANGED <<train_epoch, tav_next_epoch, tav_trained_epochs,
                           tav_epochs>>
    /\ UNCHANGED <<config_vars, summary, saved_models, partial_models,
                   stored_model, lr_set, batches_read, val_evaluated,
                   seen_vars>>

\* the val_loss column of the row train() writes: n/a
TrainLogLoss ==
    /\ TrainLog
    /\ cl_val_loss' = Append(cl_val_loss, None)
    /\ UNCHANGED <<cl_pc, cl_before, non_cl_vars>>

\* the val_loss column of the row validate() completes
ValidateLogLoss ==
    /\ ValidateLog
    /\ \E v \in 1..MaxLoss :
          cl_val_loss' = [i \in DOMAIN summary |->
                            IF summary[i].epoch = val_epoch
                            THEN <<v>> ELSE cl_val_loss[i]]
    /\ UNCHANGED <<cl_pc, cl_before, non_cl_vars>>

\* ------------------------------------------------------ SummaryLogger

\* what model.metrics_names can be; None for a logger without a model
LoggerMetrics == {None, <<"loss">>, <<"loss", "acc">>}

\* the content of the headline: Epoch, LR, then train_ and val_ per metric
headline(metric_names) ==
    <<"Epoch", "LR">> \o
    [i \in 1..(2 * Len(metric_names)) |->
        <<IF i % 2 = 1 THEN "train" ELSE "val",
          metric_names[(i + 1) \div 2]>>]

\* the line of dashes under the headline, one cell per column
vertical_line(metric_names) ==
    [i \in 1..(2 + 2 * Len(metric_names)) |-> "-"]

\* the content of a data line: the position, then one train and one val
\* cell per metric, the val cells "nan" without a validation
data_line(metric_names, epoch, val) ==
    <<epoch, "lr">> \o
    [i \in 1..(2 * Len(metric_names)) |->
        IF i % 2 = 1 THEN "train"
        ELSE IF val = None THEN "nan" ELSE "val"]

\* summary.txt with these lines
logfile(lines) == [exists |-> TRUE, lines |-> lines]

\* the lines of summary.txt, none for a missing file
logfile_lines == sl_file.lines

\* a logger that does not look at what it was constructed with
no_model_given_m(metric_names) == FALSE

\* self.metric_names is None or self.file_sizes_rltv is None
no_model_given(metric_names) == metric_names = None

\* a headline written in front of every line
needs_head_m == TRUE

\* not os.path.isfile(logfile_name) or os.stat(logfile_name).st_size == 0
needs_head == ~sl_file.exists \/ sl_file.lines = <<>>

\* write_line(epoch, lr, history_train, history_val) up to the end of
\* _init_writing, on a logger made with a model of these metrics and these
\* many train files
WriteLine(metric_names, no_of_files, epoch, val, history_ok) ==
    /\ sl_pc = "idle"
    /\ sl_count < MaxCalls
    /\ sl_count' = sl_count + 1
    /\ sl_before' = sl_file
    /\ sl_args' = [metric_names |-> metric_names,
                   no_of_files |-> no_of_files, epoch |-> epoch,
                   history_val |-> val, history_ok |-> history_ok]
    /\ IF no_model_given(metric_names)
       THEN /\ sl_error' = "AttributeError"
            /\ UNCHANGED <<sl_file, sl_pc>>
       ELSE /\ sl_error' = "none"
            /\ sl_pc' = "row"
            /\ IF needs_head
               THEN sl_file' = logfile(logfile_lines \o
                       <<headline(metric_names),
                         vertical_line(metric_names)>>)
               ELSE UNCHANGED sl_file
    /\ UNCHANGED <<sl_calls, non_sl_vars>>

\* the rest of write_line: the data line is appended
WriteLineRow ==
    /\ sl_pc = "row"
    /\ sl_pc' = "idle"
    /\ IF sl_args.epoch[2] > sl_args.no_of_files
       THEN /\ sl_error' = "IndexError"
            /\ UNCHANGED <<sl_file, sl_calls>>
       ELSE IF ~sl_args.history_ok
       THEN /\ sl_error' = "KeyError"
            /\ sl_file' = logfile(logfile_lines)
            /\ UNCHANGED sl_calls
       ELSE /\ sl_error' = "none"
            /\ sl_file' = logfile(Append(logfile_lines,
                    data_line(sl_args.metric_names, sl_args.epoch,
                              sl_args.history_val)))
            /\ sl_calls' = Append(sl_calls,
                    [metric_names |-> sl_args.metric_names,
                     epoch |-> sl_args.epoch,
                     history_val |-> sl_args.history_val])
    /\ UNCHANGED <<sl_count, sl_before, sl_args, non_sl_vars>>

\* the process is killed between the two parts of write_line
WriteLineKill ==
    /\ sl_pc = "row"
    /\ sl_pc' = "idle"
    /\ sl_error' = "killed"
    /\ UNCHANGED <<sl_file, sl_calls, sl_count, sl_before, sl_args,
                   non_sl_vars>>

\* ------------------------------------------------------ Configuration

\* options of the class documentation, among them output_folder
PublicOptions == {"batchsize", "n_events", "output_folder"}

\* private attributes set in __init__ before the keys are looked at
PrivateAttributes == {"_list_file", "_default_values"}

\* methods of the class
Methods == {"import_list_file"}

\* properties without a setter
Properties == {"key_samples"}

\* the keys a config file or keyword arguments are made of
Keys == PublicOptions \cup PrivateAttributes \cup Methods \cup Properties
            \cup {"foo"}

\* hasattr(self, key)
hasattr(key) ==
    key \in PublicOptions \cup PrivateAttributes \cup Methods
                \cup Properties

\* the first key of the loop "if hasattr: setattr, else raise" that raises,
\* Len + 1 when none does; setattr raises for a property without a setter
first_raising(keys) ==
    IF \E i \in DOMAIN keys : ~hasattr(keys[i]) \/ keys[i] \in Properties
    THEN CHOOSE i \in DOMAIN keys :
            /\ ~hasattr(keys[i]) \/ keys[i] \in Properties
            /\ \A j \in 1..(i - 1) :
                  hasattr(keys[j]) /\ keys[j] \notin Properties
    ELSE Len(keys) + 1

\* the loop over the keys: those before the first raising one are set
SetKeys(op, keys) ==
    /\ cf_call' = [op |-> op, arg |-> keys]
    /\ cf_user_set' = cf_user_set \cup
            {keys[i] : i \in 1..(first_raising(keys) - 1)}
    /\ cf_list_file' =
            (cf_list_file \/ \E i \in 1..(first_raising(keys) - 1) :
                                keys[i] = "_list_file")
    /\ cf_error' = IF first_raising(keys) <= Len(keys)
                   THEN "AttributeError" ELSE "none"
    /\ cf_before_loaded' = cf_list_file
    /\ UNCHANGED <<cf_files_dict, cf_result, non_cf_vars>>

\* the end of Configuration(output_folder, **kwargs)
SetKwargs(kwargs) ==
    /\ cf_pc = "init"
    /\ cf_pc' = IF first_raising(kwargs) <= Len(kwargs)
                THEN "failed" ELSE "ready"
    /\ SetKeys("kwargs", kwargs)

\* update_config(config_file), called by __init__ or later
UpdateConfig(user_values) ==
    /\ cf_pc \in {"init", "ready"}
    /\ cf_pc' = IF cf_pc = "init"
                   /\ first_raising(user_values) <= Len(user_values)
                THEN "failed" ELSE cf_pc
    /\ SetKeys("update_config", user_values)

\* the splits in the order of name_mapping
Splits == <<"train", "val", "inference">>

\* the logical inputs of a list file
Inputs == {"input_A", "input_B"}

\* what a list file can hold: per input and split, no entry or the
\* number of its files; the list files looked at have no inference files
FileContents ==
    {file_content \in
        [Inputs -> [{"train", "val", "inference"} ->
                      {None} \cup {<<k>> : k \in 0..MaxListFiles}]] :
        \A i \in Inputs : file_content[i]["inference"] = None}

\* _extract_filepaths: the files of the inputs that have the entry
extract_files(file_content, which) ==
    [input \in {i \in Inputs : file_content[i][which] # None} |->
        file_content[input][which][1]]

\* n_files and n_files.count(n_files[0]) != len(n_files)
different_number(files) ==
    \E i, j \in DOMAIN files : files[i] # files[j]

\* files or None
or_None(files) == IF DOMAIN files = {} THEN None ELSE <<files>>

\* import_list_file(list_file); unknown: some input of the file has a key
\* that is none of train_files, validation_files, inference_files
ImportListFile(file_content, unknown) ==
    /\ cf_pc = "ready"
    /\ IF cf_list_file
       THEN /\ cf_call' = [op |-> "import_list_file", arg |-> None]
            /\ cf_error' = "ValueError"
            /\ UNCHANGED <<cf_files_dict, cf_list_file>>
       ELSE IF unknown
       THEN /\ cf_call' = [op |-> "import_list_file",
                           arg |-> <<file_content, unknown>>]
            /\ cf_error' = "NameError"
            /\ UNCHANGED <<cf_files_dict, cf_list_file>>
       ELSE LET bad == {k \in 1..3 : different_number(
                           extract_files(file_content, Splits[k]))}
                stop == IF bad = {} THEN 4
                        ELSE CHOOSE k \in bad : \A l \in bad : k <= l
            IN /\ cf_call' = [op |-> "import_list_file",
                               arg |-> <<file_content, unknown>>]
               /\ cf_files_dict' =
                     [which \in {"train", "val", "inference"} |->
                        IF \E k \in 1..(stop - 1) : Splits[k] = which
                        THEN or_None(extract_files(file_content, which))
                        ELSE cf_files_dict[which]]
               /\ cf_list_file' = (bad = {})
               /\ cf_error' = IF bad = {} THEN "none" ELSE "ValueError"
    /\ cf_before_loaded' = cf_list_file
    /\ UNCHANGED <<cf_pc, cf_user_set, cf_result, non_cf_vars>>

\* get_files(which)
GetFiles(which) ==
    /\ cf_pc = "ready"
    /\ cf_call' = [op |-> "get_files", arg |-> which]
    /\ IF which \notin DOMAIN cf_files_dict
       THEN /\ cf_error' = "NameError"
            /\ cf_result' = None
       ELSE IF cf_files_dict[which] = None
       THEN /\ cf_error' = "AttributeError"
            /\ cf_result' = None
       ELSE /\ cf_error' = "none"
            /\ cf_result' = cf_files_dict[which]
    /\ cf_before_loaded' = cf_list_file
    /\ UNCHANGED <<cf_pc, cf_user_set, cf_files_dict, cf_list_file,
                   non_cf_vars>>

\* -------------------------------------------------- Organizer.get_xs_mean

\* a train file with so many samples of ones and of zeros
XFile(ones, zeros) == [ones |-> ones, zeros |-> zeros]

\* the train files of make_dummy_data
DummyData == <<XFile(75, 75), XFile(25, 225)>>

\* the train files the image is computed from
XFiles ==
    LET file == {XFile(o, z) : o \in 0..MaxSamples, z \in 0..MaxSamples}
        some == {f \in file : f.ones + f.zeros \in 1..MaxSamples}
    IN UNION {[1..n -> some] : n \in 1..MaxFiles} \cup {DummyData}

RECURSIVE n_ones(_)
\* the samples of ones in the files
n_ones(files) ==
    IF files = <<>> THEN 0 ELSE Head(files).ones + n_ones(Tail(files))

RECURSIVE n_samples(_)
\* the samples in the files
n_samples(files) ==
    IF files = <<>> THEN 0
    ELSE Head(files).ones + Head(files).zeros + n_samples(Tail(files))

RECURSIVE mean_of_means(_)
\* the sum of the means of the files, as a fraction
mean_of_means(files) ==
    IF files = <<>> THEN Num(0, 1)
    ELSE LET f == Head(files)
             rest == mean_of_means(Tail(files))
         IN Num(f.ones * rest.den + rest.num * (f.ones + f.zeros),
                (f.ones + f.zeros) * rest.den)

\* the mean of the means of the files
get_mean_image_m(files) ==
    Num(mean_of_means(files).num, mean_of_means(files).den * Len(files))

\* the mean image of the train files: the average over all their samples
get_mean_image(files) == Num(n_ones(files), n_samples(files))

\* a test that always asks for the image to be loaded
xs_mean_is_None_m == TRUE

\* self.xs_mean is None
xs_mean_is_None == xm_xs_mean = None

\* orga.get_xs_mean(), with load_zero_center_data: the saved image of the
\* train files is loaded, or the image is computed and saved
get_xs_mean ==
    /\ xm_calls < MaxCalls
    /\ xm_calls' = xm_calls + 1
    /\ IF ~xs_mean_is_None
       THEN /\ xm_result' = xm_xs_mean
            /\ xm_error' = "none"
            /\ UNCHANGED <<xm_xs_mean, xm_saved, xm_computed, xm_loads>>
       ELSE IF ~xm_zero_center_folder
       THEN /\ xm_result' = None
            /\ xm_error' = "ValueError"
            /\ UNCHANGED <<xm_xs_mean, xm_saved, xm_computed, xm_loads>>
       ELSE /\ xm_saved' = IF xm_saved = None
                           THEN <<get_mean_image(xm_files)>>
                           ELSE xm_saved
            /\ xm_computed' = IF xm_saved = None
                              THEN xm_computed + 1
                              ELSE xm_computed
            /\ xm_loads' = xm_loads + 1
            /\ xm_xs_mean' = xm_saved'
            /\ xm_result' = xm_saved'
            /\ xm_error' = "none"
    /\ UNCHANGED <<xm_files, xm_zero_center_folder>>

\* a call of orga.get_xs_mean() from outside the generator
GetXsMean ==
    /\ get_xs_mean
    /\ UNCHANGED non_xm_vars

\* a new Organizer on the same configuration
NewOrganizer ==
    /\ xm_xs_mean # None
    /\ xm_xs_mean' = None
    /\ xm_loads' = 0
    /\ UNCHANGED <<xm_files, xm_zero_center_folder, xm_saved, xm_computed,
                   xm_calls, xm_result, xm_error, non_xm_vars>>

\* ------------------------------------------------ Organizer.inference

\* the names the inference files of the first input can have
InfNames == {"a.h5", "b.h5"}

\* "model_epoch_{}_file_{}_on_{}".format(epoch, fileno, first_filename)
output_filename(epoch, first_filename) ==
    <<epoch[1], epoch[2], first_filename>>

\* a check that never finds the output
path_exists_m(output_path) == FALSE

\* os.path.exists(output_path)
path_exists(output_path) == output_path \in inf_outputs

\* orga.inference(epoch, fileno) up to the loop over the inference files
Inference(epoch, fileno) ==
    /\ inf_pc = "idle"
    /\ inf_calls < MaxCalls
    /\ inf_calls' = inf_calls + 1
    /\ ~(epoch = None /\ fileno = None)
    /\ inf_args' = [epoch |-> epoch, fileno |-> fileno]
    /\ inf_filenames' = <<>>
    /\ inf_wrote' = 0
    /\ inf_f_number' = 1
    /\ IF epoch = None \/ fileno = None
       THEN /\ inf_error' = "ValueError"
            /\ inf_was_complete' = FALSE
            /\ UNCHANGED inf_pc
       ELSE /\ inf_error' = "running"
            /\ inf_was_complete' =
                  (inf_completed[<<epoch[1], fileno[1]>>] # None)
            /\ inf_pc' = "loop"
    /\ UNCHANGED <<inf_files, inf_outputs, inf_opened, inf_written,
                   inf_return, inf_completed, non_inf_vars>>

\* one round of the loop: the file is skipped, or h5_inference reads it
\* and writes its output
InferenceFile ==
    /\ inf_pc = "loop"
    /\ inf_f_number <= Len(inf_files)
    /\ LET pos == <<inf_args.epoch[1], inf_args.fileno[1]>>
           output_path == output_filename(pos, inf_files[inf_f_number])
       IN /\ inf_filenames' = Append(inf_filenames, output_path)
          /\ IF path_exists(output_path)
             THEN UNCHANGED <<inf_outputs, inf_opened, inf_written,
                              inf_wrote>>
             ELSE /\ inf_outputs' = inf_outputs \cup {output_path}
                  /\ inf_opened' =
                        [inf_opened EXCEPT ![pos][inf_f_number] = @ + 1]
                  /\ inf_written' =
                        [inf_written EXCEPT ![output_path] = @ + 1]
                  /\ inf_wrote' = inf_wrote + 1
    /\ inf_f_number' = inf_f_number + 1
    /\ UNCHANGED <<inf_files, inf_pc, inf_args, inf_calls, inf_return,
                   inf_error, inf_completed, inf_was_complete,
                   non_inf_vars>>

\* return filenames
InferenceReturn ==
    /\ inf_pc = "loop"
    /\ inf_f_number > Len(inf_files)
    /\ inf_pc' = "idle"
    /\ inf_error' = "none"
    /\ inf_return' = <<inf_filenames>>
    /\ LET pos == <<inf_args.epoch[1], inf_args.fileno[1]>>
       IN inf_completed' =
            IF inf_completed[pos] = None
            THEN [inf_completed EXCEPT ![pos] = <<inf_filenames>>]
            ELSE inf_completed
    /\ UNCHANGED <<inf_files, inf_outputs, inf_opened, inf_written,
                   inf_args, inf_calls, inf_f_number, inf_filenames,
                   inf_wrote, inf_was_complete, non_inf_vars>>

\* the process is killed between two files
InferenceKill ==
    /\ inf_pc = "loop"
    /\ inf_pc' = "idle"
    /\ inf_error' = "killed"
    /\ UNCHANGED <<inf_files, inf_outputs, inf_opened, inf_written,
                   inf_args, inf_calls, inf_f_number, inf_filenames,
                   inf_wrote, inf_return, inf_completed, inf_was_complete,
                   non_inf_vars>>

\* ------------------------------------------------------ BatchLogger

\* the value logs.get(metric) of a batch can have
LogValues == {0, 1}

\* the metrics_names of the model
BatchMetrics == {<<"loss">>, <<"loss", "acc">>}

RECURSIVE cumsum(_, _)
\* np.cumsum(sizes)[i - 1], and 0 for i = 0
cumsum(sizes, i) == IF i = 0 THEN 0 ELSE cumsum(sizes, i - 1) + sizes[i]

\* file_batches = np.ceil(self.file_sizes / self.batchsize)
file_batches == [i \in DOMAIN bl_file_sizes |->
                    CeilDiv(bl_file_sizes[i], bl_batchsize)]

\* self.total_batches = np.sum(file_batches)
total_batches == cumsum(file_batches, Len(file_batches))

\* self.previous_batches for file number f_number
previous_batches(f_number) == cumsum(file_batches, f_number - 1)

\* steps_per_epoch of the fit_generator call for file f_number
fit_steps(f_number) == bl_file_sizes[f_number] \div bl_batchsize

\* batch_frctn = self.epoch_number - 1 + (self.previous_batches + self.seen
\*                - self.display / 2.) / self.total_batches
batch_frctn(epoch, seen) ==
    Num((epoch[1] - 1) * 2 * total_batches
           + 2 * previous_batches(epoch[2]) + 2 * seen - bl_display,
        2 * total_batches)

\* the accumulator kept
cleared_m(cum) == cum

\* self.cum_metrics[metric] = 0
cleared(cum) == 0

\* SummaryLogger: epoch_float = epoch[0]-1 + self.file_sizes_rltv[epoch[1]-1]
\* with file_sizes_rltv = np.cumsum(file_sizes) / np.sum(file_sizes)
epoch_float(epoch) ==
    Num((epoch[1] - 1) * cumsum(bl_file_sizes, Len(bl_file_sizes))
           + cumsum(bl_file_sizes, epoch[2]),
        cumsum(bl_file_sizes, Len(bl_file_sizes)))

\* self._write_lines(flush): the lines are appended to the file
write_lines(file, lines, flush) ==
    [file EXCEPT !.rows = @ \o lines,
                 !.synced = IF flush THEN Len(file.rows) + Len(lines) ELSE @]

\* BatchLogger(orga, curr_epoch) and, when fit_generator starts,
\* on_epoch_begin: the counters are set and the head is written
on_epoch_begin(epoch) ==
    /\ bl_pc = "idle"
    /\ bl_epoch' = epoch
    /\ bl_pc' = "training"
    /\ bl_seen' = 0
    /\ bl_lines' = <<>>
    /\ bl_cum_metrics' = [i \in DOMAIN bl_metrics_names |-> 0]
    /\ bl_file' = [head |-> <<bl_metrics_names>>, rows |-> <<>>,
                   synced |-> 0]
    /\ bl_logs' = <<>>
    /\ UNCHANGED <<bl_file_sizes, bl_batchsize, bl_display, bl_flush,
                   bl_metrics_names, bl_last_float, non_bl_vars>>

\* on_batch_end(batch, logs)
on_batch_end(logs) ==
    /\ bl_pc = "training"
    /\ bl_seen < fit_steps(bl_epoch[2])
    /\ bl_seen' = bl_seen + 1
    /\ bl_logs' = Append(bl_logs, logs)
    /\ LET cum == [i \in DOMAIN bl_metrics_names |->
                      bl_cum_metrics[i] + logs[i]]
       IN IF (bl_seen + 1) % bl_display = 0
          THEN LET line == [batch |-> bl_seen + 1,
                            batch_float |-> batch_frctn(bl_epoch, bl_seen + 1),
                            vals |-> [i \in DOMAIN bl_metrics_names |->
                                         Num(cum[i], bl_display)]]
                   flush == bl_flush # -1 /\ bl_display % bl_flush = 0
               IN /\ bl_cum_metrics' =
                        [i \in DOMAIN bl_metrics_names |-> cleared(cum[i])]
                  /\ bl_file' = write_lines(bl_file,
                                            Append(bl_lines, line), flush)
                  /\ bl_lines' = <<>>
          ELSE /\ bl_cum_metrics' = cum
               /\ UNCHANGED <<bl_file, bl_lines>>
    /\ UNCHANGED <<bl_file_sizes, bl_batchsize, bl_display, bl_flush,
                   bl_metrics_names, bl_pc, bl_epoch, bl_last_float,
                   non_bl_vars>>

\* on_epoch_end: fit_generator is through with the file
on_epoch_end ==
    /\ bl_pc = "training"
    /\ bl_seen = fit_steps(bl_epoch[2])
    /\ bl_file' = write_lines(bl_file, bl_lines, TRUE)
    /\ bl_lines' = <<>>
    /\ bl_pc' = "idle"
    /\ bl_last_float' =
          IF bl_file.rows = <<>> THEN bl_last_float
          ELSE <<bl_file.rows[Len(bl_file.rows)].batch_float>>
    /\ UNCHANGED <<bl_file_sizes, bl_batchsize, bl_display, bl_flush,
                   bl_metrics_names, bl_epoch, bl_seen, bl_cum_metrics,
                   bl_logs, non_bl_vars>>

\* the position trained after the one the logger was last made for
NextLogPosition ==
    IF bl_epoch = None THEN <<1, 1>>
    ELSE IF bl_epoch[2] < Len(bl_file_sizes)
         THEN <<bl_epoch[1], bl_epoch[2] + 1>>
         ELSE <<bl_epoch[1] + 1, 1>>

\* ------------------------------- hdf5_batch_generator: zero centering

\* the inputs of files_dict
ZcInputs == {{"input_A"}, {"input_A", "input_B"}}

\* what is done to the data of an input, one step after the other
Op(op, of) == [op |-> op, of |-> of]

\* xs[input_key] as it is yielded: the rows read from the file, minus
\* xs_mean[input_key] when there is an image, then through sample_modifier
\* when there is one
zc_xs(input_key, xs_mean) ==
    <<Op("read", input_key)>>
    \o (IF xs_mean # None THEN <<Op("subtract", input_key)>> ELSE <<>>)
    \o (IF zc_sample_modifier THEN <<Op("sample_modifier", "xs")>>
                                ELSE <<>>)

\* hdf5_batch_generator(orga, files_dict, zero_center=...): the generator
\* is made, nothing of its body has run
ZcGenerator(inputs, zero_center) ==
    /\ zc_pc # "running"
    /\ zc_pc' = "created"
    /\ zc_inputs' = inputs
    /\ zc_zero_center' = zero_center
    /\ zc_opened' = {}
    /\ zc_batches' = <<>>
    /\ zc_error' = "none"
    /\ zc_xs_mean' = None
    /\ UNCHANGED <<zc_sample_modifier, zc_n_batches, xm_vars, non_zc_vars>>

\* next(generator): the first call runs the body up to the first yield,
\* get_xs_mean included; a later one reads the next batch or ends the loop
ZcNext ==
    /\ zc_pc \in {"created", "running"}
    /\ IF zc_pc = "created"
       THEN IF zc_zero_center
            THEN /\ get_xs_mean
                 /\ IF xm_error' = "ValueError"
                    THEN /\ zc_pc' = "raised"
                         /\ zc_error' = "ValueError"
                         /\ UNCHANGED <<zc_opened, zc_batches, zc_xs_mean>>
                    ELSE /\ zc_pc' = "running"
                         /\ zc_opened' = zc_inputs
                         /\ zc_xs_mean' = xm_result'
                         /\ zc_batches' =
                               <<[i \in zc_inputs |-> zc_xs(i, xm_result')]>>
                         /\ UNCHANGED zc_error
            ELSE /\ zc_pc' = "running"
                 /\ zc_opened' = zc_inputs
                 /\ zc_batches' = <<[i \in zc_inputs |-> zc_xs(i, None)]>>
                 /\ UNCHANGED <<zc_xs_mean, zc_error, xm_vars>>
       ELSE /\ IF Len(zc_batches) < zc_n_batches
               THEN /\ zc_batches' = Append(zc_batches,
                           [i \in zc_inputs |-> zc_xs(i, zc_xs_mean)])
                    /\ UNCHANGED zc_pc
               ELSE /\ zc_pc' = "exhausted"
                    /\ UNCHANGED zc_batches
            /\ UNCHANGED <<zc_opened, zc_xs_mean, zc_error, xm_vars>>
    /\ UNCHANGED <<zc_inputs, zc_zero_center, zc_sample_modifier,
                   zc_n_batches, non_zc_vars>>

\* --------------------------------------------------- specifications

\* an empty output folder and a new Organizer
OrgaStart ==
    /\ summary = <<>>
    /\ saved_models = {}
    /\ partial_models = {}
    /\ pc = "idle"
    /\ ret = "idle"
    /\ stored_model = FALSE
    /\ train_epoch = None
    /\ val_epoch = None
    /\ tav_next_epoch = None
    /\ tav_file_no = 0
    /\ tav_trained_epochs = 0
    /\ tav_epochs = <<0>>
    /\ error = "none"
    /\ lr_set = FALSE
    /\ batches_read = FALSE
    /\ val_evaluated = FALSE
    /\ fresh = TRUE
    /\ last_trained = None
    /\ val_log = <<>>

\* Organizer(output_folder, list_file, config_file)
OrgaInit ==
    /\ n_train_files \in 1..MaxFiles
    /\ validate_interval \in {None} \cup {<<k>> : k \in 1..MaxInterval}
    /\ cleanup_models = FALSE
    /\ OrgaStart

\* no generator is under observation
GenOff ==
    /\ gen_file_len = 1
    /\ gen_other_len = None
    /\ gen_yield_mc = FALSE
    /\ gen_opened = {}
    /\ gen_open = {}
    /\ gen_error = "none"
    /\ gen_f_size = None
    /\ gen_cfg_batchsize = 1
    /\ gen_max_queue_size = 1
    /\ gen_shuffle = FALSE
    /\ gen_pc = "off"
    /\ gen_sample_pos = <<>>
    /\ gen_batches = <<>>
    /\ cons_mode = "drain"
    /\ cons_consumed = 0
    /\ cons_starved = FALSE

\* hdf5_batch_generator(orga, files_dict, f_size, shuffle=...) was called
GenInit ==
    /\ gen_file_len \in 1..MaxSamples
    /\ gen_other_len \in {None} \cup {<<k>> : k \in 1..MaxSamples}
    /\ gen_yield_mc \in BOOLEAN
    /\ gen_opened = {}
    /\ gen_open = {}
    /\ gen_error = "none"
    /\ gen_f_size \in {None} \cup {<<k>> : k \in 1..MaxSamples}
    /\ gen_cfg_batchsize \in 1..MaxBatch
    /\ gen_max_queue_size \in 1..MaxQueue
    /\ gen_shuffle \in BOOLEAN
    /\ gen_pc = "created"
    /\ gen_sample_pos = <<>>
    /\ gen_batches = <<>>
    /\ cons_mode \in {"prefetch", "drain"}
    /\ cons_consumed = 0
    /\ cons_starved = FALSE

\* no pass is under observation
PassOff ==
    /\ pass_kind = "train"
    /\ pass_pc = "off"
    /\ pass_files = <<1>>
    /\ pass_f_number = 1
    /\ pass_n_events = None
    /\ pass_samples = None
    /\ pass_leaked = {}
    /\ pass_error = "none"
    /\ pred_rows = [mc_info |-> 0, label |-> 0, pred |-> 0]
    /\ pred_created = FALSE
    /\ pred_written = 0
    /\ pred_index = <<>>

\* no call of get_learning_rate is under observation
LrOff ==
    /\ lr_epoch = <<1, 1>>
    /\ lr_user_lr = [kind |-> "None"]
    /\ lr_no_train_files = 1
    /\ lr_result = Pass

\* no call of validate_model is under observation
VmOff ==
    /\ vm_metrics_names = <<"loss">>
    /\ vm_histories = <<<<0>>>>
    /\ vm_pc = "off"
    /\ vm_result = [n \in {"loss"} |-> Num(0, 1)]

\* no prediction has been made or asked for
PredStart ==
    /\ pr_pred_files = [pos \in PredPositions |-> {}]
    /\ pr_conc = FALSE
    /\ pr_pc = "idle"
    /\ pr_args = None
    /\ pr_f_number = 1
    /\ pr_was_done = FALSE
    /\ pr_was_partial = FALSE
    /\ pr_loaded = FALSE
    /\ pr_ran = FALSE
    /\ pr_wrote = {}
    /\ pr_return = None
    /\ pr_error = "none"
    /\ pr_produced = [pos \in PredPositions |-> None]
    /\ pr_last_write = None

\* predict is not under observation
PredOff ==
    /\ pr_n_val_files = 1
    /\ PredStart

\* cleanup_models is not under observation
CleanupOff ==
    /\ cl_val_loss = <<>>
    /\ cl_pc = "idle"
    /\ cl_before = {}

\* no write_line call has been made
LoggerStart ==
    /\ sl_pc = "idle"
    /\ sl_args = None
    /\ sl_calls = <<>>
    /\ sl_count = 0
    /\ sl_before = [exists |-> FALSE, lines |-> <<>>]
    /\ sl_error = "none"

\* no SummaryLogger is under observation
LoggerOff ==
    /\ sl_file = [exists |-> FALSE, lines |-> <<>>]
    /\ LoggerStart

\* the attributes as __init__ sets them
ConfigStart ==
    /\ cf_user_set = {}
    /\ cf_files_dict = [which \in {"train", "val", "inference"} |-> None]
    /\ cf_list_file = FALSE
    /\ cf_call = None
    /\ cf_error = "none"
    /\ cf_result = None
    /\ cf_before_loaded = FALSE

\* no Configuration is under observation
ConfigOff ==
    /\ cf_pc = "ready"
    /\ ConfigStart

\* no image has been computed or asked for
XsMeanStart ==
    /\ xm_saved = None
    /\ xm_computed = 0
    /\ xm_loads = 0
    /\ xm_xs_mean = None
    /\ xm_calls = 0
    /\ xm_result = None
    /\ xm_error = "none"

\* get_xs_mean is not under observation
XsMeanOff ==
    /\ xm_files = <<>>
    /\ xm_zero_center_folder = FALSE
    /\ XsMeanStart

\* no inference has been made or asked for
InferenceStart ==
    /\ inf_outputs = {}
    /\ inf_opened = [pos \in PredPositions |->
                        [i \in DOMAIN inf_files |-> 0]]
    /\ inf_written = [path \in {output_filename(pos, name) :
                            pos \in PredPositions, name \in InfNames} |-> 0]
    /\ inf_pc = "idle"
    /\ inf_args = None
    /\ inf_calls = 0
    /\ inf_f_number = 1
    /\ inf_filenames = <<>>
    /\ inf_wrote = 0
    /\ inf_return = None
    /\ inf_error = "none"
    /\ inf_completed = [pos \in PredPositions |-> None]
    /\ inf_was_complete = FALSE

\* inference is not under observation
InferenceOff ==
    /\ inf_files = <<>>
    /\ InferenceStart

\* no BatchLogger has been made
BatchLogStart ==
    /\ bl_pc = "idle"
    /\ bl_epoch = None
    /\ bl_seen = 0
    /\ bl_lines = <<>>
    /\ bl_cum_metrics = <<>>
    /\ bl_file = [head |-> None, rows |-> <<>>, synced |-> 0]
    /\ bl_logs = <<>>
    /\ bl_last_float = None

\* no training is logged
BatchLogOff ==
    /\ bl_file_sizes = <<1>>
    /\ bl_batchsize = 1
    /\ bl_display = 1
    /\ bl_flush = -1
    /\ bl_metrics_names = <<"loss">>
    /\ BatchLogStart

\* no generator has been made
ZeroCenterStart ==
    /\ zc_pc = "off"
    /\ zc_inputs = {}
    /\ zc_zero_center = FALSE
    /\ zc_opened = {}
    /\ zc_batches = <<>>
    /\ zc_xs_mean = None
    /\ zc_error = "none"

\* no zero centering generator is under observation
ZeroCenterOff ==
    /\ zc_sample_modifier = FALSE
    /\ zc_n_batches = 1
    /\ ZeroCenterStart

\* the Organizer of one output folder
Init == OrgaInit /\ GenOff /\ PassOff /\ LrOff /\ VmOff /\ PredOff
        /\ CleanupOff /\ LoggerOff /\ ConfigOff /\ XsMeanOff /\ InferenceOff
        /\ BatchLogOff /\ ZeroCenterOff

Next ==
    \/ (\E model \in {"given", "none"} : Train(model)) /\ UNCHANGED non_orga_vars
    \/ TrainFit /\ UNCHANGED non_orga_vars
    \/ TrainSaveBegin /\ UNCHANGED non_orga_vars
    \/ TrainSaveEnd /\ UNCHANGED non_orga_vars
    \/ TrainLog /\ UNCHANGED non_orga_vars
    \/ Validate /\ UNCHANGED non_orga_vars
    \/ ValidateRun /\ UNCHANGED non_orga_vars
    \/ ValidateLog /\ UNCHANGED non_orga_vars
    \/ (\E model \in {"given", "none"},
           epochs \in {None} \cup {<<k>> : k \in 0..MaxEpoch} :
          TrainAndValidate(model, epochs)) /\ UNCHANGED non_orga_vars
    \/ TavCheck /\ UNCHANGED non_orga_vars
    \/ TavWhile /\ UNCHANGED non_orga_vars
    \/ TavFor /\ UNCHANGED non_orga_vars
    \/ TavAfterTrain /\ UNCHANGED non_orga_vars
    \/ Restart /\ UNCHANGED non_orga_vars

Spec == Init /\ [][Next]_vars

\* a step of the running process: nothing but a kill stops it
Step ==
    (\/ TrainFit \/ TrainSaveBegin \/ TrainSaveEnd \/ TrainLog
     \/ ValidateRun \/ ValidateLog
     \/ TavCheck \/ TavWhile \/ TavFor \/ TavAfterTrain)
    /\ UNCHANGED non_orga_vars

\* train_and_validate calls on one output folder, by processes that go on
\* until they are killed
NextRun ==
    \/ (\E model \in {"given", "none"},
           epochs \in {None} \cup {<<k>> : k \in 0..MaxEpoch} :
          TrainAndValidate(model, epochs)) /\ UNCHANGED non_orga_vars
    \/ Step
    \/ Restart /\ UNCHANGED non_orga_vars

SpecRun == Init /\ [][NextRun]_vars /\ WF_vars(Step)

\* one pass of the batch generator, for every choice of its arguments
InitGen ==
    /\ GenInit
    /\ n_train_files = 1
    /\ validate_interval = None
    /\ cleanup_models = FALSE
    /\ OrgaStart
    /\ PassOff
    /\ LrOff
    /\ VmOff
    /\ PredOff
    /\ CleanupOff
    /\ LoggerOff
    /\ ConfigOff
    /\ XsMeanOff
    /\ InferenceOff
    /\ BatchLogOff
    /\ ZeroCenterOff

NextGen ==
    \/ Pull
    \/ Consume

SpecGen == InitGen /\ [][NextGen]_vars

\* the files of the split a pass goes over: train_model has one file,
\* save_actv_wghts_plot takes the first, the others take them all
PassFiles(kind) ==
    IF kind \in {"train", "plot"}
    THEN {<<a>> : a \in 1..MaxSamples}
    ELSE {<<a>> : a \in 1..MaxSamples}
         \cup {<<a, b>> : a \in 1..MaxSamples, b \in 1..MaxSamples}

\* a pass has been called and has made the generator of its first file
InitPass ==
    /\ n_train_files = 1
    /\ validate_interval = None
    /\ cleanup_models = FALSE
    /\ OrgaStart
    /\ pass_kind \in {"train", "validate", "predict", "plot"}
    /\ pass_pc = "running"
    /\ pass_files \in PassFiles(pass_kind)
    /\ pass_f_number = 1
    /\ pass_n_events \in
          IF pass_kind \in {"train", "validate"}
          THEN {None} \cup {<<k>> : k \in 1..MaxSamples} ELSE {None}
    /\ pass_samples \in
          CASE pass_kind = "predict" ->
                  {None} \cup {<<k>> : k \in 1..MaxSamples}
            [] pass_kind = "plot" -> {<<k>> : k \in 1..MaxSamples}
            [] OTHER -> {None}
    /\ pass_leaked = {}
    /\ pass_error = "none"
    /\ pred_rows = [mc_info |-> 0, label |-> 0, pred |-> 0]
    /\ pred_created = FALSE
    /\ pred_written = 0
    /\ pred_index = <<>>
    /\ gen_file_len = pass_files[1]
    /\ gen_other_len \in OtherInputs(pass_files[1])
    /\ gen_yield_mc = (pass_kind \in {"predict", "plot"})
    /\ gen_f_size = pass_f_size(pass_files[1])
    /\ gen_cfg_batchsize \in 1..MaxBatch
    /\ gen_max_queue_size \in 1..MaxQueue
    /\ gen_shuffle \in (IF pass_kind = "train" THEN BOOLEAN ELSE {FALSE})
    /\ gen_pc = "created"
    /\ gen_sample_pos = <<>>
    /\ gen_batches = <<>>
    /\ gen_opened = {}
    /\ gen_open = {}
    /\ gen_error = "none"
    /\ cons_mode = (IF queued THEN "prefetch" ELSE "next")
    /\ cons_consumed = 0
    /\ cons_starved = FALSE
    /\ LrOff
    /\ VmOff
    /\ PredOff
    /\ CleanupOff
    /\ LoggerOff
    /\ ConfigOff
    /\ XsMeanOff
    /\ InferenceOff
    /\ BatchLogOff
    /\ ZeroCenterOff

NextPass ==
    \/ PassPull
    \/ PassStep
    \/ PassFail
    \/ PassNextFile
    \/ PassEnd

SpecPass == InitPass /\ [][NextPass]_vars

\* get_learning_rate is called for a position of the schedule
InitLr ==
    /\ n_train_files = 1
    /\ validate_interval = None
    /\ cleanup_models = FALSE
    /\ OrgaStart
    /\ lr_no_train_files \in 1..MaxFiles
    /\ lr_epoch \in (1..MaxEpoch) \X (1..lr_no_train_files)
    /\ lr_user_lr \in UserLrs
    /\ lr_result = Pass
    /\ GenOff
    /\ PassOff
    /\ VmOff
    /\ PredOff
    /\ CleanupOff
    /\ LoggerOff
    /\ ConfigOff
    /\ XsMeanOff
    /\ InferenceOff
    /\ BatchLogOff
    /\ ZeroCenterOff

NextLr == GetLearningRate

SpecLr == InitLr /\ [][NextLr]_vars

\* validate_model has evaluated the model on every validation file
InitVm ==
    /\ n_train_files = 1
    /\ validate_interval = None
    /\ cleanup_models = FALSE
    /\ OrgaStart
    /\ vm_metrics_names \in
          {SubSeq(MetricNames, 1, m) : m \in 1..MaxMetrics}
    /\ vm_histories \in
          UNION {[1..f -> [1..Len(vm_metrics_names) -> 0..MaxLoss]] :
                    f \in 1..MaxValFiles}
    /\ vm_pc = "evaluated"
    /\ vm_result = [n \in {"loss"} |-> Num(0, 1)]
    /\ GenOff
    /\ PassOff
    /\ LrOff
    /\ PredOff
    /\ CleanupOff
    /\ LoggerOff
    /\ ConfigOff
    /\ XsMeanOff
    /\ InferenceOff
    /\ BatchLogOff
    /\ ZeroCenterOff

NextVm == ValidateModelReturn

SpecVm == InitVm /\ [][NextVm]_vars

\* an output folder with trained models and no prediction yet
InitPredict ==
    /\ n_train_files = 1
    /\ validate_interval = None
    /\ cleanup_models = FALSE
    /\ OrgaStart
    /\ pr_n_val_files \in 1..MaxValFiles
    /\ PredStart
    /\ GenOff
    /\ PassOff
    /\ LrOff
    /\ VmOff
    /\ CleanupOff
    /\ LoggerOff
    /\ ConfigOff
    /\ XsMeanOff
    /\ InferenceOff
    /\ BatchLogOff
    /\ ZeroCenterOff

NextPredict ==
    \/ \E epoch \in {None, <<1>>}, fileno \in {None, <<1>>, <<2>>},
          concatenate \in BOOLEAN : Predict(epoch, fileno, concatenate)
    \/ PredictGroup
    \/ PredictReturn
    \/ PredictKill

SpecPredict == InitPredict /\ [][NextPredict]_vars

\* the summary logs and model folders cleanup_models is run on: the first
\* rows positions were trained, some of them validated, and any of their
\* models, and that of the position in training, may be on disk
InitCleanup ==
    /\ n_train_files \in 1..MaxFiles
    /\ validate_interval = None
    /\ cleanup_models = FALSE
    /\ \E rows \in 0..MaxRows :
          /\ cl_val_loss \in
                [1..rows -> {None} \cup {<<v>> : v \in 1..MaxLoss}]
          /\ summary = [i \in 1..rows |->
                          [epoch |-> PosAt(i, n_train_files),
                           is_validated |-> cl_val_loss[i] # None]]
          /\ saved_models \in
                SUBSET {PosAt(i, n_train_files) : i \in 1..(rows + 1)}
    /\ partial_models = {}
    /\ pc = "idle"
    /\ ret = "idle"
    /\ stored_model = FALSE
    /\ train_epoch = None
    /\ val_epoch = None
    /\ tav_next_epoch = None
    /\ tav_file_no = 0
    /\ tav_trained_epochs = 0
    /\ tav_epochs = <<0>>
    /\ error = "none"
    /\ lr_set = FALSE
    /\ batches_read = FALSE
    /\ val_evaluated = FALSE
    /\ fresh = TRUE
    /\ last_trained = None
    /\ val_log = <<>>
    /\ cl_pc = "idle"
    /\ cl_before = {}
    /\ GenOff
    /\ PassOff
    /\ LrOff
    /\ VmOff
    /\ PredOff
    /\ LoggerOff
    /\ ConfigOff
    /\ XsMeanOff
    /\ InferenceOff
    /\ BatchLogOff
    /\ ZeroCenterOff

NextCleanup == CleanupModels

SpecCleanup == InitCleanup /\ [][NextCleanup]_vars

\* an empty output folder and an Organizer with cfg.cleanup_models set
InitCleanupRun ==
    /\ n_train_files \in 1..MaxFiles
    /\ validate_interval \in {None} \cup {<<k>> : k \in 1..MaxInterval}
    /\ cleanup_models = TRUE
    /\ OrgaStart
    /\ CleanupOff
    /\ GenOff
    /\ PassOff
    /\ LrOff
    /\ VmOff
    /\ PredOff
    /\ LoggerOff
    /\ ConfigOff
    /\ XsMeanOff
    /\ InferenceOff
    /\ BatchLogOff
    /\ ZeroCenterOff

\* the calls of an Organizer that cleans up after every train and validate
NextCleanupRun ==
    \/ (\E model \in {"given", "none"} : Train(model)) /\ UNCHANGED non_orga_vars
    \/ TrainFit /\ UNCHANGED non_orga_vars
    \/ TrainSaveBegin /\ UNCHANGED non_orga_vars
    \/ TrainSaveEnd /\ UNCHANGED non_orga_vars
    \/ TrainLogLoss
    \/ Validate /\ UNCHANGED non_orga_vars
    \/ ValidateRun /\ UNCHANGED non_orga_vars
    \/ ValidateLogLoss
    \/ CleanupAssert /\ UNCHANGED non_orga_vars
    \/ CleanupRemove /\ UNCHANGED non_orga_vars
    \/ CleanupReturn /\ UNCHANGED non_orga_vars
    \/ (\E model \in {"given", "none"},
           epochs \in {None} \cup {<<k>> : k \in 0..MaxEpoch} :
          TrainAndValidate(model, epochs)) /\ UNCHANGED non_orga_vars
    \/ TavCheck /\ UNCHANGED non_orga_vars
    \/ TavWhile /\ UNCHANGED non_orga_vars
    \/ TavFor /\ UNCHANGED non_orga_vars
    \/ TavAfterTrain /\ UNCHANGED non_orga_vars
    \/ Restart /\ UNCHANGED non_orga_vars

SpecCleanupRun == InitCleanupRun /\ [][NextCleanupRun]_vars

\* an output folder without a summary.txt, or with an empty one
InitLogger ==
    /\ n_train_files = 1
    /\ validate_interval = None
    /\ cleanup_models = FALSE
    /\ OrgaStart
    /\ sl_file \in {[exists |-> e, lines |-> <<>>] : e \in BOOLEAN}
    /\ LoggerStart
    /\ GenOff
    /\ PassOff
    /\ LrOff
    /\ VmOff
    /\ PredOff
    /\ CleanupOff
    /\ ConfigOff
    /\ XsMeanOff
    /\ InferenceOff
    /\ BatchLogOff
    /\ ZeroCenterOff

NextLogger ==
    \/ \E metric_names \in LoggerMetrics, no_of_files \in 1..MaxFiles,
          epoch \in {<<1, f>> : f \in 1..MaxFiles},
          val \in {None, <<"val">>}, history_ok \in BOOLEAN :
          WriteLine(metric_names, no_of_files, epoch, val, history_ok)
    \/ WriteLineRow
    \/ WriteLineKill

SpecLogger == InitLogger /\ [][NextLogger]_vars

\* the sequences of up to MaxKeys different keys
KeyLists ==
    {keys \in UNION {[1..n -> Keys] : n \in 0..MaxKeys} :
        \A i, j \in DOMAIN keys : keys[i] = keys[j] => i = j}

\* Configuration(output_folder) before its keyword arguments are set
InitOptions ==
    /\ n_train_files = 1
    /\ validate_interval = None
    /\ cleanup_models = FALSE
    /\ OrgaStart
    /\ cf_pc = "init"
    /\ ConfigStart
    /\ GenOff
    /\ PassOff
    /\ LrOff
    /\ VmOff
    /\ PredOff
    /\ CleanupOff
    /\ LoggerOff
    /\ XsMeanOff
    /\ InferenceOff
    /\ BatchLogOff
    /\ ZeroCenterOff

NextOptions ==
    \/ \E kwargs \in KeyLists : SetKwargs(kwargs)
    \/ \E user_values \in KeyLists : UpdateConfig(user_values)

SpecOptions == InitOptions /\ [][NextOptions]_vars

\* Configuration(output_folder) without a list file
InitListFile ==
    /\ n_train_files = 1
    /\ validate_interval = None
    /\ cleanup_models = FALSE
    /\ OrgaStart
    /\ cf_pc = "ready"
    /\ ConfigStart
    /\ GenOff
    /\ PassOff
    /\ LrOff
    /\ VmOff
    /\ PredOff
    /\ CleanupOff
    /\ LoggerOff
    /\ XsMeanOff
    /\ InferenceOff
    /\ BatchLogOff
    /\ ZeroCenterOff

NextListFile ==
    \/ \E file_content \in FileContents, unknown \in BOOLEAN :
          ImportListFile(file_content, unknown)
    \/ \E which \in {"train", "val", "inference", "test"} :
          GetFiles(which)

SpecListFile == InitListFile /\ [][NextListFile]_vars

\* an Organizer whose zero center image has not been asked for
InitXsMean ==
    /\ n_train_files = 1
    /\ validate_interval = None
    /\ cleanup_models = FALSE
    /\ OrgaStart
    /\ xm_files \in XFiles
    /\ xm_zero_center_folder \in BOOLEAN
    /\ XsMeanStart
    /\ GenOff
    /\ PassOff
    /\ LrOff
    /\ VmOff
    /\ PredOff
    /\ CleanupOff
    /\ LoggerOff
    /\ ConfigOff
    /\ InferenceOff
    /\ BatchLogOff
    /\ ZeroCenterOff

NextXsMean ==
    \/ GetXsMean
    \/ NewOrganizer

SpecXsMean == InitXsMean /\ [][NextXsMean]_vars

\* an output folder without predictions, and some inference files
InitInference ==
    /\ n_train_files = 1
    /\ validate_interval = None
    /\ cleanup_models = FALSE
    /\ OrgaStart
    /\ inf_files \in UNION {[1..n -> InfNames] : n \in 1..MaxInfFiles}
    /\ InferenceStart
    /\ GenOff
    /\ PassOff
    /\ LrOff
    /\ VmOff
    /\ PredOff
    /\ CleanupOff
    /\ LoggerOff
    /\ ConfigOff
    /\ XsMeanOff
    /\ BatchLogOff
    /\ ZeroCenterOff

NextInference ==
    \/ \E epoch \in {None, <<1>>}, fileno \in {None, <<1>>, <<2>>} :
          Inference(epoch, fileno)
    \/ InferenceFile
    \/ InferenceReturn
    \/ InferenceKill

SpecInference == InitInference /\ [][NextInference]_vars

\* the training of one file, with any metric values
InitBatchLog ==
    /\ n_train_files = 1
    /\ validate_interval = None
    /\ cleanup_models = FALSE
    /\ OrgaStart
    /\ bl_file_sizes \in [1..1 -> 1..MaxSamples]
    /\ bl_batchsize \in 1..MaxBatch
    /\ bl_display \in 1..MaxDisplay
    /\ bl_flush \in {-1} \cup 1..MaxDisplay
    /\ bl_metrics_names \in BatchMetrics
    /\ BatchLogStart
    /\ GenOff
    /\ PassOff
    /\ LrOff
    /\ VmOff
    /\ PredOff
    /\ CleanupOff
    /\ LoggerOff
    /\ ConfigOff
    /\ XsMeanOff
    /\ InferenceOff
    /\ ZeroCenterOff

NextBatchLog ==
    \/ (NextLogPosition[1] <= 1 /\ on_epoch_begin(NextLogPosition))
    \/ \E logs \in [DOMAIN bl_metrics_names -> LogValues] :
          on_batch_end(logs)
    \/ on_epoch_end

SpecBatchLog == InitBatchLog /\ [][NextBatchLog]_vars

\* the training of the files of some epochs, one position after the other
InitBatchFloat ==
    /\ n_train_files = 1
    /\ validate_interval = None
    /\ cleanup_models = FALSE
    /\ OrgaStart
    /\ bl_file_sizes \in
          UNION {[1..n -> 1..MaxLogSamples] : n \in 1..MaxLogFiles}
    /\ bl_batchsize \in 1..MaxLogBatch
    /\ bl_display \in 1..MaxDisplay
    /\ bl_flush = -1
    /\ bl_metrics_names = <<"loss">>
    /\ BatchLogStart
    /\ GenOff
    /\ PassOff
    /\ LrOff
    /\ VmOff
    /\ PredOff
    /\ CleanupOff
    /\ LoggerOff
    /\ ConfigOff
    /\ XsMeanOff
    /\ InferenceOff
    /\ ZeroCenterOff

NextBatchFloat ==
    \/ (NextLogPosition[1] <= MaxEpoch /\ on_epoch_begin(NextLogPosition))
    \/ on_batch_end(<<0>>)
    \/ on_epoch_end

SpecBatchFloat == InitBatchFloat /\ [][NextBatchFloat]_vars

\* an Organizer with or without a zero center folder, and generators made
\* for its files
InitZeroCenter ==
    /\ n_train_files = 1
    /\ validate_interval = None
    /\ cleanup_models = FALSE
    /\ OrgaStart
    /\ xm_files = DummyData
    /\ xm_zero_center_folder \in BOOLEAN
    /\ XsMeanStart
    /\ zc_sample_modifier \in BOOLEAN
    /\ zc_n_batches \in 1..MaxQueue
    /\ ZeroCenterStart
    /\ GenOff
    /\ PassOff
    /\ LrOff
    /\ VmOff
    /\ PredOff
    /\ CleanupOff
    /\ LoggerOff
    /\ ConfigOff
    /\ InferenceOff
    /\ BatchLogOff

NextZeroCenter ==
    \/ \E inputs \in ZcInputs, zero_center \in BOOLEAN :
          ZcGenerator(inputs, zero_center)
    \/ ZcNext
    \/ GetXsMean
    \/ NewOrganizer

SpecZeroCenter == InitZeroCenter /\ [][NextZeroCenter]_vars

\* ------------------------------------------------------ properties

\* the row of a position, if it has one
HasRow(epoch) == \E i \in DOMAIN summary : summary[i].epoch = epoch

\* how often a validation was recorded for a position
TimesValidated(epoch) ==
    Cardinality({i \in DOMAIN val_log : val_log[i].pos = epoch})

\* file % interval = 0 or the last file, written out
DueAt(file) ==
    \/ file = n_train_files
    \/ (validate_interval # None /\ file % validate_interval[1] = 0)

ValidateErrors == {"ValueError: No saved model found",
                   "ValueError: Has already been validated"}

\* C1: the positions whose training completed are, in the order of their
\* completion, (1,1), (1,2), ..., (1,n), (2,1), ...: each one is the direct
\* successor of the one before, none is trained twice and none is skipped,
\* whatever train / train_and_validate calls and restarts have happened.
C1_TrainedInOrder ==
    \A i \in DOMAIN summary : summary[i].epoch = PosAt(i, n_train_files)

\* C1 witness: more than one file per epoch, and the training has gone on
\* into the second epoch in an Organizer made after a restart.
C1_Witness ==
    /\ n_train_files > 1
    /\ Len(summary) > n_train_files
    /\ fresh
    /\ error = "none"

\* C2: a train() that raises FileExistsError found a saved model for the next
\* position, has set no learning rate and read no batch, and leaves the
\* summary log and the saved models as they were; a train() that goes on to
\* its pass found no saved model for the position it trains.
C2_FileExistsFailsFast ==
    [][ /\ (error' = "FileExistsError" /\ error # "FileExistsError")
            => /\ get_next_epoch(get_latest_epoch) \in saved_models
               /\ summary' = summary
               /\ saved_models' = saved_models
               /\ partial_models' = partial_models
               /\ lr_set' = FALSE
               /\ batches_read' = FALSE
        /\ (pc' = "train_fit" /\ pc # "train_fit")
            => /\ train_epoch' \notin saved_models
               /\ train_epoch' = get_next_epoch(get_latest_epoch)
      ]_vars

\* C2 witness: a train() has raised FileExistsError.
C2_Witness ==
    /\ pc = "idle"
    /\ error = "FileExistsError"
    /\ get_next_epoch(get_latest_epoch) \in saved_models

C4_ValidateRefuses ==
    [][ /\ (error' \in ValidateErrors /\ error' # error)
            => /\ summary' = summary
               /\ val_log' = val_log
               /\ val_evaluated' = FALSE
               /\ \/ /\ error' = "ValueError: No saved model found"
                     /\ summary = <<>>
                  \/ /\ error' = "ValueError: Has already been validated"
                     /\ summary # <<>>
                     /\ summary[Len(summary)].is_validated
        /\ (pc' = "val_run" /\ pc # "val_run")
            => /\ summary # <<>>
               /\ ~summary[Len(summary)].is_validated
      ]_vars

\* C4 witness: a validate() has refused a position validated already.
C4_Witness ==
    /\ pc = "idle"
    /\ error = "ValueError: Has already been validated"
    /\ ~val_evaluated

\* C5: val_is_due(epoch, file) is true exactly when file is the last train
\* file or a multiple of validate_interval; it is the same in every state
\* (validated or not), and with 5 train files and interval 3 it is due at
\* files 3 and 5 only.
C5_ValIsDue ==
    /\ \A e \in 1..MaxEpoch : \A f \in 1..n_train_files :
          val_is_due(<<e, f>>) <=> DueAt(f)
    /\ \A e \in 1..MaxEpoch : \A f \in 1..5 :
          val_is_due_for(<<e, f>>, 5, <<3>>) <=> f \in {3, 5}
    /\ (pc \in {"val_run", "val_log"} /\ ret = "tav_after_val")
          => DueAt(val_epoch[2])

\* C5 witness: train_and_validate validates, by the interval, after a file
\* that is not the last one of the epoch, in an epoch other than the first.
C5_Witness ==
    /\ pc = "val_run"
    /\ ret = "tav_after_val"
    /\ val_epoch[2] # n_train_files
    /\ val_epoch[1] > 1

\* C6: when train_and_validate begins to train a position, the position
\* trained before it has exactly one recorded validation if validation was
\* due for it (also when it was trained before an interruption), and
\* train_and_validate never validates a position for which none is due.
C6_ValidateOnSchedule ==
    /\ \A i \in DOMAIN val_log :
          val_log[i].via = "tav" => DueAt(val_log[i].pos[2])
    /\ (pc = "train_fit" /\ ret = "tav_after_train" /\ summary # <<>>)
          => LET p == summary[Len(summary)].epoch
             IN /\ train_epoch = PosAt(Len(summary) + 1, n_train_files)
                /\ DueAt(p[2]) => TimesValidated(p) = 1
                /\ DueAt(p[2]) => summary[Len(summary)].is_validated

\* C6 witness: after a restart, train_and_validate has validated the latest
\* position, left unvalidated by the interrupted run, and now trains.
C6_Witness ==
    /\ pc = "train_fit"
    /\ ret = "tav_after_train"
    /\ fresh
    /\ val_log # <<>>
    /\ val_log[Len(val_log)].via = "tav"
    /\ val_log[Len(val_log)].pos = last_trained

\* C7: the latest position read from the output folder is the position of
\* the last train() that returned, in every Organizer made on the folder
\* afterwards, and the next train() trains its successor.
C7_ResumeFromDurableState ==
    /\ last_trained # None => get_latest_epoch = last_trained
    /\ last_trained # None => last_trained = PosAt(Len(summary), n_train_files)
    /\ pc \in {"train_fit", "train_save", "train_saving", "train_log"}
          => train_epoch = PosAt(Len(summary) + 1, n_train_files)

\* C7 witness: an Organizer made after a restart trains the successor of the
\* position the earlier one trained last.
C7_Witness ==
    /\ fresh
    /\ pc = "train_log"
    /\ last_trained # None
    /\ train_epoch = get_next_epoch(last_trained)

\* C8: a position whose training was killed before its summary row was
\* written has no row, and a train() after the restart trains it again: it
\* does not fail with FileExistsError.
C8_KilledPositionRetrained ==
    /\ pc \in {"train_fit", "train_save", "train_saving", "train_log"}
          => ~HasRow(train_epoch)
    /\ \A p \in saved_models :
          ~HasRow(p) => ~(pc = "idle" /\ error = "FileExistsError")

\* the sum of the sizes of the first k batches yielded
RECURSIVE SizeSum(_)
SizeSum(k) == IF k = 0 THEN 0 ELSE SizeSum(k - 1) + gen_batches[k].size

\* C9: once the regular batches of a pass with a given f_size are out (an
\* f_size of at most the number of samples in the file), there are
\* ceil(f_size / min(b, f_size)) of them, their sizes sum to f_size, and all
\* have size min(b, f_size) except possibly the one at the last offset of the
\* file (wherever a shuffle has put it), which may be smaller.
C9_RegularBatchesCoverFSize ==
    (gen_f_size # None /\ gen_pc # "created"
        /\ gen_f_size[1] <= gen_file_len
        /\ Len(gen_batches) >= total_no_of_batches)
    => LET f == gen_f_size[1]
           b == Min(gen_cfg_batchsize, f)
           t == CeilDiv(f, b)
       IN /\ total_no_of_batches = t
          /\ SizeSum(t) = f
          /\ \A i \in 1..t :
                /\ gen_batches[i].size <= b
                /\ gen_batches[i].start # (t - 1) * b
                      => gen_batches[i].size = b

\* C10: a generator that has ended has yielded, after its regular batches,
\* max_queue_size more that repeat the first max_queue_size of the pass in
\* order; a consumer that uses the regular batches and fetches at most
\* max_queue_size ahead never meets the end of the generator.
C10_PreloadNeverStarves ==
    /\ gen_pc = "exhausted"
          => /\ Len(gen_batches) = total_no_of_batches + gen_max_queue_size
             /\ \A k \in 1..gen_max_queue_size :
                   gen_batches[total_no_of_batches + k] = gen_batches[k]
    /\ ~cons_starved

\* C11: in every batch the generator has yielded, the sample arrays of all
\* inputs, the label arrays and (when it is yielded) the mc_info array have
\* the same leading dimension.
C11_SameLeadingDimension ==
    \A k \in DOMAIN gen_batches :
        /\ \A i \in DOMAIN gen_batches[k].xs :
              gen_batches[k].xs[i] = gen_batches[k].ys
        /\ gen_batches[k].mc # None
              => gen_batches[k].mc[1] = gen_batches[k].ys

\* C11 witness: two parallel inputs and mc_info are yielded, and a short
\* last batch has come after a full one.
C11_Witness ==
    /\ gen_other_len # None
    /\ gen_yield_mc
    /\ Len(gen_batches) >= 2
    /\ gen_batches[1].size = batchsize
    /\ gen_batches[2].size > 0
    /\ gen_batches[2].size < batchsize
    /\ gen_batches[2].mc = <<gen_batches[2].size>>

\* C12: when the parallel files do not hold the same number of samples, the
\* first pull raises ValueError, no batch is yielded, and every file the
\* generator had opened is closed again.
C12_LengthMismatchRaises ==
    (gen_other_len # None /\ gen_other_len[1] # gen_file_len
        /\ gen_pc # "created")
    => /\ gen_pc = "raised"
       /\ gen_error = "ValueError"
       /\ gen_batches = <<>>
       /\ gen_opened = {1, 2}
       /\ gen_open = {}

\* C12 witness: both files were opened and the generator has raised.
C12_Witness ==
    /\ gen_pc = "raised"
    /\ gen_error = "ValueError"
    /\ gen_opened = {1, 2}
    /\ gen_other_len[1] # gen_file_len

C16_FullPass ==
    (pass_kind \in {"train", "validate"} /\ pass_pc = "finished")
    => /\ steps = total_no_of_batches
       /\ cons_consumed = total_no_of_batches
       /\ SizeSum(cons_consumed) = f_size

\* C20: in the prediction file all datasets have the same number of rows
\* after every batch write; it is the row count of the batches written so
\* far, never more than the sum of the validation file sizes, and equal to
\* that sum when a prediction with samples=None has finished.
C20_PredictionRows ==
    pass_kind = "predict"
    => /\ pred_rows.mc_info = pred_rows.label
       /\ pred_rows.label = pred_rows.pred
       /\ pred_rows.pred = pred_written
       /\ pred_written <= total_file_size
       /\ (pass_pc = "finished" /\ pass_samples = None)
             => pred_written = total_file_size

\* C20 witness: a prediction with samples=None over two validation files
\* has finished; the batch size divides neither file, so both files ended
\* with a smaller batch.
C20_Witness ==
    /\ pass_kind = "predict"
    /\ pass_pc = "finished"
    /\ pass_samples = None
    /\ Len(pass_files) = 2
    /\ gen_cfg_batchsize > 1
    /\ pass_files[1] % gen_cfg_batchsize # 0
    /\ pass_files[2] % gen_cfg_batchsize # 0
    /\ pass_files[1] > gen_cfg_batchsize
    /\ pred_rows.pred = pass_files[1] + pass_files[2]

\* C14: for a learning rate given as (lr_init, decay), the rate at position
\* (epoch, file) is lr_init * (1 - decay)^k with
\* k = (epoch - 1) * n_train_files + (file - 1), the number of files
\* trained before that position; at epoch 1 file 1 it is lr_init.
C14_ExponentialDecay ==
    (lr_result # Pass /\ lr_user_lr.kind = "seq"
        /\ Len(lr_user_lr.items) = 2
        /\ \A i \in 1..2 : lr_user_lr.items[i] \in Numbers)
    => /\ lr_result.out = "return"
       /\ NumEq(lr_result.lr,
                NumMul(lr_user_lr.items[1],
                       NumPow(OneMinus(lr_user_lr.items[2]),
                              (lr_epoch[1] - 1) * lr_no_train_files
                              + (lr_epoch[2] - 1))))
       /\ lr_epoch = <<1, 1>> => NumEq(lr_result.lr, lr_user_lr.items[1])

\* C15: get_learning_rate returns a float unchanged, returns a rate for a
\* sequence of exactly two floats, returns the value of a function of two
\* parameters called with (epoch, file), and raises TypeError for every
\* other input.
C15_LearningRateForms ==
    lr_result # Pass
    => CASE lr_user_lr.kind = "float" ->
                lr_result = Return(lr_user_lr.val)
         [] (lr_user_lr.kind = "seq" /\ Len(lr_user_lr.items) = 2
                /\ \A i \in 1..2 : lr_user_lr.items[i] \in Numbers) ->
                lr_result.out = "return"
         [] (lr_user_lr.kind = "func" /\ lr_user_lr.n_params = 2) ->
                lr_result = Return(user_fn(lr_epoch[1], lr_epoch[2]))
         [] OTHER -> lr_result = Raised("TypeError")

PredictedPos == <<pr_args.epoch[1], pr_args.fileno[1]>>

\* a predict call has returned that found its position fully predicted
FullyPredictedCall ==
    /\ pr_pc = "idle"
    /\ pr_args # None
    /\ pr_error = "none"
    /\ pr_was_done

LowestValLoss ==
    {summary[i].epoch : i \in {k \in ValidatedRows :
        \A j \in ValidatedRows : cl_val_loss[k][1] <= cl_val_loss[j][1]}}

\* the positions cleanup_models is to keep beside the latest one
BestPositions ==
    IF ValidatedRows = {} THEN {get_latest_epoch} ELSE LowestValLoss

\* C21: when cleanup_models returns, the models on disk are exactly those
\* of the latest trained position and of a validated position with the
\* lowest val_loss (the latest alone without a validated position), and
\* both were on disk before; when the latest or the best position had no
\* model on disk it raises AssertionError and the models are as before.
C21_CleanupKeepsBestAndLatest ==
    /\ cl_pc = "returned"
         => /\ get_latest_epoch \in cl_before
            /\ \E best \in BestPositions \cap cl_before :
                  saved_models = {best, get_latest_epoch}
    /\ cl_pc = "AssertionError"
         => /\ saved_models = cl_before
            /\ \/ get_latest_epoch \notin cl_before
               \/ BestPositions \cap cl_before # BestPositions
    /\ (cl_pc # "idle" /\ (\/ get_latest_epoch \notin cl_before
                            \/ BestPositions \cap cl_before = {}))
         => cl_pc = "AssertionError"

\* C21 witness: a cleanup has returned that deleted a model and kept two,
\* the best one not being the latest.
C21_Witness ==
    /\ cl_pc = "returned"
    /\ Cardinality(saved_models) = 2
    /\ Cardinality(cl_before) = 3
    /\ ValidatedRows # {}

\* the data lines of the write_line calls that have returned
DataLines ==
    [i \in DOMAIN sl_calls |->
        data_line(sl_calls[i].metric_names, sl_calls[i].epoch,
                  sl_calls[i].history_val)]

\* a line is a headline
IsHeadline(line) == \E m \in LoggerMetrics \ {None} : line = headline(m)

\* C22: after any write_line calls, through loggers of any models on the
\* same folder, summary.txt is one headline, one line of dashes and then one
\* data line per call that returned, in call order; every step only appends
\* to the file, and a headline is appended only to a missing or empty file.
C22_SummaryAppendOnly ==
    [][/\ logfile_lines' # <<>>
            => /\ Len(logfile_lines') >= 2
               /\ IsHeadline(logfile_lines'[1])
               /\ logfile_lines'[2] =
                     [i \in 1..Len(logfile_lines'[1]) |-> "-"]
               /\ SubSeq(logfile_lines', 3, Len(logfile_lines')) =
                     DataLines'
       /\ logfile_lines' = <<>> => sl_calls' = <<>>
       /\ Len(logfile_lines') >= Len(logfile_lines)
       /\ SubSeq(logfile_lines', 1, Len(logfile_lines)) = logfile_lines
       /\ \A i \in (Len(logfile_lines) + 1)..Len(logfile_lines') :
             IsHeadline(logfile_lines'[i])
                 => (i = 1 /\ (~sl_file.exists \/ sl_file.lines = <<>>))]_vars

\* C22 witness: two calls through loggers of different models have
\* returned, and the file holds the headline of the first and two rows.
C22_Witness ==
    /\ sl_pc = "idle"
    /\ Len(sl_calls) = 2
    /\ sl_calls[1].metric_names # sl_calls[2].metric_names
    /\ Len(logfile_lines) = 4

\* C23: a write_line call on a logger constructed without a model raises
\* AttributeError and leaves summary.txt as it was, missing if it was
\* missing.
C23_NoModelNoWrite ==
    (sl_pc = "idle" /\ sl_args # None /\ sl_args.metric_names = None)
    => (sl_error = "AttributeError" /\ sl_file = sl_before)

\* C23 witness: a call on a logger without a model has raised on a folder
\* without summary.txt, and on one call on a file with a row.
C23_Witness ==
    /\ sl_pc = "idle"
    /\ sl_args # None
    /\ sl_args.metric_names = None
    /\ sl_error = "AttributeError"
    /\ Len(logfile_lines) = 3

\* C24: Configuration(**kwargs) and update_config raise AttributeError for
\* every key that is not a documented public option, and no other attribute
\* is ever set from a config file or from keyword arguments.
C24_UnknownKeysRejected ==
    /\ cf_user_set \subseteq PublicOptions
    /\ (cf_call # None
          /\ \E i \in DOMAIN cf_call.arg :
                cf_call.arg[i] \notin PublicOptions)
         => cf_error = "AttributeError"

\* the number of files an input declares for a split, 0 without the entry
Declared(entry) == IF entry = None THEN 0 ELSE entry[1]

\* the number of files an input has in a file set, 0 when it is not in it
FilesOf(files, input) ==
    IF files = None THEN 0
    ELSE IF input \in DOMAIN files[1] THEN files[1][input] ELSE 0

\* a list file was imported in the last call, without unknown keys
Imported ==
    /\ cf_call # None
    /\ cf_call.op = "import_list_file"
    /\ cf_call.arg # None
    /\ ~cf_call.arg[2]

\* C25: import_list_file raises ValueError when for some split the inputs
\* of the list file do not all declare the same number of files, and after
\* a successful import every input has, for each split, the same number of
\* files.
C25_ConsistentFileCounts ==
    Imported
    => /\ (\E which \in {"train", "val", "inference"} :
             \E i, j \in Inputs :
                Declared(cf_call.arg[1][i][which]) #
                Declared(cf_call.arg[1][j][which]))
            => cf_error = "ValueError"
       /\ cf_error = "none"
            => \A which \in {"train", "val", "inference"} :
                 \A i, j \in Inputs :
                    FilesOf(cf_files_dict[which], i) =
                    FilesOf(cf_files_dict[which], j)

\* C26: get_files(split) raises NameError for a name other than train, val
\* and inference, AttributeError for a split without declared files, and
\* what it returns has at least one input and at least one file per input.
C26_GetFilesNeverEmpty ==
    (cf_call # None /\ cf_call.op = "get_files")
    => /\ cf_call.arg \notin {"train", "val", "inference"}
            => cf_error = "NameError"
       /\ (cf_call.arg \in {"train", "val", "inference"}
            /\ cf_files_dict[cf_call.arg] = None)
            => cf_error = "AttributeError"
       /\ cf_error = "none"
            => /\ cf_result # None
               /\ DOMAIN cf_result[1] # {}
               /\ \A i \in DOMAIN cf_result[1] : cf_result[1][i] >= 1

\* C27: the zero center image that get_xs_mean returns is the number of
\* ones among all samples of all train files divided by the number of all
\* samples; for the files of make_dummy_data it is 100/400 = 0.25.
C27_MeanOverAllSamples ==
    xm_result # None
    => /\ xm_result[1].num * n_samples(xm_files) =
          n_ones(xm_files) * xm_result[1].den
       /\ xm_result[1].den > 0
       /\ xm_files = DummyData => 4 * xm_result[1].num = xm_result[1].den

\* C27 witness: the image of the files of make_dummy_data has been returned
\* and is 0.25, which is not the mean 0.3 of the means 0.5 and 0.1.
C27_Witness ==
    /\ xm_files = DummyData
    /\ xm_result # None
    /\ NumEq(xm_result[1], Num(1, 4))
    /\ ~NumEq(xm_result[1], get_mean_image_m(xm_files))

\* the process is inside train_and_validate
InTav == tav_next_epoch # None

\* the epoch of the next position when the running train_and_validate was
\* called
TavFirstEpoch == tav_next_epoch[1] - tav_trained_epochs

\* C28: train_and_validate(epochs=k) with k >= 1 comes to an end; it starts
\* at the next position (e0, f0), trains the files f0.. of epoch e0 and then
\* whole epochs, each train() at the position of the loop, and when it
\* returns the latest trained position is (e0 + k - 1, n_train_files); with
\* epochs=None it does not return.
C28_TrainsEpochs ==
    /\ [][/\ (~InTav /\ InTav')
               => /\ tav_next_epoch' = get_next_epoch(get_latest_epoch)
                  /\ tav_trained_epochs' = 0
          /\ (InTav /\ InTav')
               => /\ TavFirstEpoch' = TavFirstEpoch
                  /\ tav_epochs' = tav_epochs
          /\ (pc = "tav_for" /\ pc' = "train_fit")
               => train_epoch' = <<tav_next_epoch[1], tav_file_no>>
          /\ (InTav /\ ~InTav' /\ error' = "none")
               => /\ tav_epochs # None
                  /\ tav_epochs[1] >= 1
                       => get_latest_epoch' =
                            <<TavFirstEpoch + tav_epochs[1] - 1,
                              n_train_files>>]_vars
    /\ \A k \in 1..MaxEpoch :
          (InTav /\ tav_epochs = <<k>>) ~> ~InTav

\* C28 witness: a call with epochs=2 has trained its two epochs, the last
\* file included, and is about to return.
C28_Witness ==
    /\ pc = "tav_while"
    /\ tav_epochs = <<2>>
    /\ tav_trained_epochs = 2
    /\ n_train_files = 2
    /\ get_latest_epoch = <<2, 2>>

\* the position of the running / last inference call
InfPos == <<inf_args.epoch[1], inf_args.fileno[1]>>

\* an inference call has returned
InfReturned ==
    /\ inf_pc = "idle"
    /\ inf_args # None
    /\ inf_error = "none"

\* C29: for a model position, inference reads each inference file at most
\* once and writes each output at most once; the list it returns has the
\* output path of every inference file, in list order; a call after a
\* completed one returns the same list and writes nothing.
C29_InferenceOnce ==
    /\ \A pos \in PredPositions : \A i \in DOMAIN inf_files :
          inf_opened[pos][i] <= 1
    /\ \A path \in DOMAIN inf_written : inf_written[path] <= 1
    /\ InfReturned
         => /\ inf_return[1] =
                  [i \in DOMAIN inf_files |->
                      output_filename(InfPos, inf_files[i])]
            /\ inf_was_complete
                  => /\ inf_wrote = 0
                     /\ inf_return = inf_completed[InfPos]

\* C29 witness: a second call for a position has returned the two paths of
\* the completed first one, after a first call that read both files.
C29_Witness ==
    /\ InfReturned
    /\ inf_was_complete
    /\ Len(inf_files) = 2
    /\ inf_opened[InfPos] = <<1, 1>>
    /\ Len(inf_return[1]) = 2
    /\ inf_wrote = 0

\* the generator has made its sample_pos
GenStarted == gen_pc \in {"running", "exhausted", "closed"}

\* the offsets of the regular batches: sample_pos before the append
RegularPos == SubSeq(gen_sample_pos, 1, total_no_of_batches)

\* the multiples of the batch size below f_size
MultiplesBelow == {n \in 0..(f_size - 1) : n % batchsize = 0}

\* C30: the start offsets of the regular batches are the multiples of the
\* batch size below f_size, each once; in increasing order without shuffle;
\* the wrap-around tail repeats the first offsets of the order in use.
C30_BatchOffsets ==
    GenStarted
      => /\ {RegularPos[i] : i \in DOMAIN RegularPos} = MultiplesBelow
         /\ \A i, j \in DOMAIN RegularPos :
               i # j => RegularPos[i] # RegularPos[j]
         /\ ~gen_shuffle
               => \A i \in DOMAIN RegularPos :
                     RegularPos[i] = (i - 1) * batchsize
         /\ \A j \in 1..(Len(gen_sample_pos) - total_no_of_batches) :
               gen_sample_pos[total_no_of_batches + j] = RegularPos[j]

\* C30 witness: a shuffled order that is not the increasing one, with a
\* tail that starts with an offset other than 0.
C30_Witness ==
    /\ GenStarted
    /\ gen_shuffle
    /\ total_no_of_batches >= 2
    /\ RegularPos # arange_pos
    /\ Len(gen_sample_pos) > total_no_of_batches
    /\ gen_sample_pos[total_no_of_batches + 1] # 0

RECURSIVE AllSamples(_)
\* the samples of the first n files of the pass, in list order
AllSamples(n) ==
    IF n = 0 THEN <<>>
    ELSE AllSamples(n - 1) \o [k \in 1..pass_files[n] |-> <<n, k>>]

\* C31: in a prediction with samples=None, row k of the prediction file
\* belongs to the k-th sample of the validation files taken in list order:
\* the rows written so far are the first samples in that order, every
\* dataset has one row for each, and a finished prediction has them all.
C31_RowsInFileOrder ==
    (pass_kind = "predict" /\ pass_samples = None)
    => /\ Len(pred_index) <= Len(AllSamples(Len(pass_files)))
       /\ pred_index =
             SubSeq(AllSamples(Len(pass_files)), 1, Len(pred_index))
       /\ \A n \in DOMAIN pred_rows : pred_rows[n] = Len(pred_index)
       /\ pass_pc = "finished"
             => pred_index = AllSamples(Len(pass_files))

\* C31 witness: a finished prediction over two files of several batches
\* each, the first one ending with a smaller batch.
C31_Witness ==
    /\ pass_kind = "predict"
    /\ pass_samples = None
    /\ pass_pc = "finished"
    /\ Len(pass_files) = 2
    /\ pass_files[1] > gen_cfg_batchsize
    /\ pass_files[1] % gen_cfg_batchsize # 0
    /\ pass_files[2] > gen_cfg_batchsize
    /\ Len(pred_index) = pass_files[1] + pass_files[2]
    /\ pred_index[pass_files[1] + 1] = <<2, 1>>

RECURSIVE log_sum(_, _, _)
\* the sum of the values of metric i in the batches from .. to of the file
log_sum(i, from, to) ==
    IF to < from THEN 0 ELSE log_sum(i, from, to - 1) + bl_logs[to][i]

\* C32: after N batches of a file its log holds the head and
\* floor(N / display) rows, row r written at batch r * display with the
\* mean of every metric over the display batches of its window; the
\* accumulators hold the sum of the batches after the last row only, and
\* no row is waiting to be written.
C32_WindowedRows ==
    bl_epoch # None
    => /\ bl_file.head = <<bl_metrics_names>>
       /\ Len(bl_file.rows) = bl_seen \div bl_display
       /\ bl_lines = <<>>
       /\ \A r \in DOMAIN bl_file.rows :
             /\ bl_file.rows[r].batch = r * bl_display
             /\ \A i \in DOMAIN bl_metrics_names :
                   NumEq(bl_file.rows[r].vals[i],
                         Num(log_sum(i, (r - 1) * bl_display + 1,
                                     r * bl_display),
                             bl_display))
       /\ \A i \in DOMAIN bl_metrics_names :
             bl_cum_metrics[i] =
                log_sum(i, Len(bl_file.rows) * bl_display + 1, bl_seen)

\* C32 witness: a file of three batches is through with a display of two:
\* the log holds the one row of the first two batches, and the third batch
\* is in the accumulator only.
C32_Witness ==
    /\ bl_pc = "idle"
    /\ bl_epoch # None
    /\ bl_display = 2
    /\ bl_seen = 3
    /\ Len(bl_file.rows) = 1
    /\ bl_file.rows[1].vals[1] = Num(2, 2)
    /\ bl_cum_metrics[1] = 1

\* x <= y
NumLeq(x, y) == x.num * y.den <= y.num * x.den

\* C33: every Batch_float written while position (e, f) is trained lies
\* between the file-level epoch of the file before (e - 1 for the first
\* file) and the file-level epoch of (e, f), and Batch_float grows from
\* row to row across files and epochs.
C33_SharedAxis ==
    bl_epoch # None
    => \A r \in DOMAIN bl_file.rows :
          LET x == bl_file.rows[r].batch_float
              below == IF bl_epoch[2] = 1 THEN Num(bl_epoch[1] - 1, 1)
                       ELSE epoch_float(<<bl_epoch[1], bl_epoch[2] - 1>>)
          IN /\ NumLeq(below, x)
             /\ NumLeq(x, epoch_float(bl_epoch))
             /\ r > 1 => ~NumLeq(x, bl_file.rows[r - 1].batch_float)
             /\ (r = 1 /\ bl_pc = "training" /\ bl_last_float # None)
                   => ~NumLeq(x, bl_last_float[1])

\* C34: a generator asked to zero center without a zero center folder
\* raises ValueError at its start, with no file opened and no batch
\* yielded, and so does get_xs_mean; with zero centering active the data of
\* every input has the image of that input subtracted right after it is
\* read, before sample_modifier; the images are loaded at most once per
\* Organizer.
C34_ZeroCenter ==
    /\ (zc_zero_center /\ ~xm_zero_center_folder
           /\ zc_pc \notin {"off", "created"})
         => /\ zc_pc = "raised"
            /\ zc_error = "ValueError"
            /\ zc_opened = {}
            /\ zc_batches = <<>>
    /\ (~xm_zero_center_folder /\ xm_calls > 0)
         => (xm_error = "ValueError" /\ xm_result = None)
    /\ (zc_zero_center /\ xm_zero_center_folder)
         => \A b \in DOMAIN zc_batches : \A i \in zc_inputs :
               /\ Len(zc_batches[b][i]) >= 2
               /\ zc_batches[b][i][1] = Op("read", i)
               /\ zc_batches[b][i][2] = Op("subtract", i)
               /\ \A k \in 3..Len(zc_batches[b][i]) :
                     zc_batches[b][i][k] = Op("sample_modifier", "xs")
    /\ xm_loads <= 1

\* C34 witness: the second zero centering generator of an Organizer has
\* yielded two batches of two inputs, with a sample_modifier; the image was
\* loaded once.
C34_Witness ==
    /\ zc_zero_center
    /\ xm_zero_center_folder
    /\ zc_sample_modifier
    /\ zc_inputs = {"input_A", "input_B"}
    /\ Len(zc_batches) = 2
    /\ xm_calls = 2
    /\ xm_loads = 1

\* C35: in every round of the train_and_validate loop the position the
\* loop has in its counters is the position its train() call trains, saves
\* and records, also when the call resumes in the middle of an epoch.
C35_LoopPositionIsTrained ==
    /\ (ret = "tav_after_train" /\ train_epoch # None)
          => train_epoch = curr_epoch
    /\ pc = "tav_after_train"
          => /\ last_trained = curr_epoch
             /\ curr_epoch \in saved_models
             /\ summary[Len(summary)].epoch = curr_epoch

\* C35 witness: a train_and_validate that began at the second file of the
\* second epoch is back from its first train().
C35_Witness ==
    /\ pc = "tav_after_train"
    /\ tav_trained_epochs = 0
    /\ curr_epoch = <<2, 2>>
    /\ last_trained = <<2, 2>>

C39_StoredModelCleared ==
    /\ pc = "idle" => ~stored_model
    /\ (val_epoch # None /\ ret = "idle") => ~stored_model

\* C37: with cfg.cleanup_models set for the whole run, neither assertion of
\* cleanup_models ever fails, the model of the latest trained position is
\* on disk and complete in every state, so a later train, validate or
\* restart can load it, and cleanup_models returns with at most two models
\* left on disk.
C37_CleanupKeepsNeeded ==
    /\ [](/\ error # "AssertionError"
          /\ (get_latest_epoch # None
                => get_latest_epoch \in (saved_models \ partial_models)))
    /\ [][CleanupReturn => Cardinality(saved_models') <= 2]_vars

\* train_and_validate has trained three positions, the best model is not
\* the latest, and the cleanup has left these two models
C37_Witness ==
    /\ Len(summary) = 3
    /\ stored_model
    /\ pc = "tav_for"
    /\ best_epoch # get_latest_epoch
    /\ saved_models = {best_epoch, get_latest_epoch}

=============================================================================
